---- MODULE Spec2Model ----
(***************************************************************************)
(* A model of igun997/kolosal-vibe: the multi-file response parser          *)
(* (WebCodeAgent._parse_web_files), the web generation turns (POST /chat,   *)
(* the WebSocket chat turn, direct file edits) and the execute-and-auto-fix *)
(* loop (CodeAgent.run).                                                    *)
(*                                                                          *)
(* Text is a sequence of one-character strings, so that the regular         *)
(* expressions of the parser are matched character by character.            *)
(***************************************************************************)
EXTENDS Integers, Sequences, FiniteSets, TLC

VARIABLES
    \* ---- the parser on its own (ParseSpec)
    segs,           \* the pieces the response text was assembled from
    response,       \* the response string handed to _parse_web_files
    parsed,         \* the mapping it returned (insertion-ordered)
    ppc,            \* "input" before the call, "parsed" after it
    \* ---- CodeAgent.run (RunSpec)
    rpc,            \* where run() is
    language,       \* its language argument
    auto_fix,       \* its auto_fix argument
    code,           \* its local code
    exec_result,    \* its local exec_result
    retries,        \* its local retries
    run_result,     \* what it returned
    run_log,        \* the calls it made to the LLM and the sandbox, in order
    \* ---- one session: its agent, its sandbox and its request handlers (Spec)
    registered,     \* the session is in SessionManager.sessions
    sbx,            \* agent.sandbox: "none", "uncreated" (no remote sandbox), "ready"
    remote,         \* the files of the sandbox under WORKSPACE_DIR, by file name
    project_files,  \* agent.project_files
    history,        \* agent.history
    server_running, \* agent.server_running
    preview_url,    \* session.preview_url / preview_token
    turns,          \* requests handled so far
    hpc,            \* where the REST handler in flight is
    hkind,          \* which REST request that is: "chat" or "update"
    hstatus,        \* how the last REST request ended: "ok" or "failed"
    happended,      \* history entries appended by the REST chat turn
    hraised,        \* what raised in the REST chat turn
    wpc,            \* where the WebSocket handler is
    wprompt,        \* the prompt of the chat message it is handling
    chunks,         \* the chunks the LLM stream has delivered in this turn
    full_response,  \* stream_generate's local full_response
    wfiles,         \* stream_generate's local files
    wnext,          \* the next entry of files to upload
    events,         \* the events sent to the client in this turn
    wstatus,        \* how the WebSocket chat turn ended: "ok" or "failed"
    wraised,        \* the message of the exception raised in this turn
    wpreview,       \* deploy_and_preview returned a preview in this turn
    wappended,      \* history entries appended by this turn
    llm_calls,      \* calls of llm.chat made by the turn in hand
    llm_request,    \* the last call of llm.chat by a web turn: its messages, and the
                    \* prompt and the history they were built from
    \* ---- the life of the agent's sandbox (LifeSpec)
    agent_sandbox,  \* agent.sandbox: the SandboxManager it refers to, 0 for None
    mgr_sandbox,    \* SandboxManager.sandbox of each manager: a handle, 0 for None
    managers,       \* SandboxManager objects made so far
    sandboxes,      \* remote sandboxes created so far (handles 1..sandboxes)
    deletes,        \* daytona.delete calls issued, by handle
    links,          \* get_preview_link calls issued, by handle
    stored_preview, \* the handle whose url and token session.preview_url/_token hold
    cpc,            \* where each call of CodeAgent.cleanup is
    cref,           \* the SandboxManager each call of cleanup works on
    cleanups,       \* direct calls of CodeAgent.cleanup so far
    cleaned,        \* a call of cleanup has begun
    dstate,         \* destroy_session: "none", "running", "returned"
    dresult,        \* what destroy_session gave its caller: "true" or "raised"
    draised,        \* daytona.delete raised in destroy_session's cleanup
    dmanagers,      \* the managers made when destroy_session began
    rsandboxes,     \* the sandboxes created when destroy_session returned
    lpc,            \* where the operation in hand is
    op,             \* the operation in hand and what it saw and did
    ops,            \* operations begun so far
    used,           \* the handles the operations acted on
    create_failed,  \* a create_sandbox call has raised
    started,        \* a start_preview_server call on a created sandbox has returned
    written_order,  \* the file names in the order each was first written
    served,         \* the sandboxes in which the kill and the start command were issued
    \* ---- two sessions side by side (PairSpec)
    p_sessions,     \* SessionManager.sessions: the sessions registered
    p_files,        \* the project_files dicts made by WebCodeAgent.__init__
    p_history,      \* the history lists made by CodeAgent.__init__
    p_sandbox,      \* the sandbox each agent holds, 0 for None
    p_running,      \* server_running of each agent
    p_preview,      \* the sandbox whose url and token each session stores, 0 for None
    p_created,      \* sandboxes the Daytona account has created
    p_pc,           \* where the operation of each session is
    p_ops,          \* operations begun on each session
    p_acting,       \* the session whose operation took the last step
    \* ---- handlers of one session that run side by side (RaceSpec)
    task_pc,        \* where the handler of each task is
    task_kind,      \* what each task handles: "stream" or "update"
    task_files,     \* the files the handler of each task writes
    task_next,      \* the next entry of them to upload
    race_ops,       \* handlers begun so far
    start_commands, \* times the kill and the start command were issued in the sandbox
    uploaded,       \* the content last uploaded to the sandbox, by file name
    \* ---- the client leaving in the middle of a streaming turn (CloseSpec)
    at_close,       \* what the session held when the client closed the connection
    \* ---- SessionManager.cleanup_inactive next to get_session (IdleSpec)
    now,            \* datetime.now(), in minutes
    reg,            \* SessionManager.sessions: the ids registered, in insertion order
    last_activity,  \* Session.last_activity of each session
    idle_pc,        \* where cleanup_inactive is
    cutoff,         \* its local cutoff
    to_remove,      \* its local to_remove, what is left of it
    gone            \* the sessions destroy_session has popped

parseVars == <<segs, response, parsed, ppc>>
runVars == <<rpc, language, auto_fix, code, exec_result, retries, run_result, run_log>>
agentVars == <<registered, sbx, remote, project_files, history, server_running, preview_url, turns>>
restVars == <<hpc, hkind, hstatus, happended, hraised>>
wsVars == <<wpc, wprompt, chunks, full_response, wfiles, wnext, events, wstatus, wraised,
           wpreview, wappended>>
sessVars == <<agentVars, restVars, wsVars>>
lifeVars == <<agent_sandbox, mgr_sandbox, managers, sandboxes, deletes, links, stored_preview,
             cpc, cref, cleanups, cleaned, dstate, dresult, draised, dmanagers, rsandboxes,
             lpc, op, ops, used, create_failed, started, written_order,
             served>>
turnVars == <<llm_calls, llm_request>>
pairVars == <<p_sessions, p_files, p_history, p_sandbox, p_running, p_preview, p_created,
             p_pc, p_ops, p_acting>>
raceVars == <<task_pc, task_kind, task_files, task_next, race_ops, start_commands, uploaded>>
closeVars == <<at_close>>
idleVars == <<now, reg, last_activity, idle_pc, cutoff, to_remove, gone>>
moreVars == <<raceVars, closeVars, idleVars>>
vars == <<parseVars, runVars, sessVars, lifeVars, turnVars, pairVars, moreVars>>

(***************************************************************************)
(* Characters and strings                                                   *)
(***************************************************************************)
UpperChars == <<"A","B","C","D","E","F","G","H","I","J","K","L","M",
                "N","O","P","Q","R","S","T","U","V","W","X","Y","Z">>
LowerChars == <<"a","b","c","d","e","f","g","h","i","j","k","l","m",
                "n","o","p","q","r","s","t","u","v","w","x","y","z">>
DigitChars == <<"0","1","2","3","4","5","6","7","8","9">>

Range(f) == {f[i] : i \in DOMAIN f}

\* re.IGNORECASE compares letters without their case.
Lower(c) ==
    IF c \in Range(UpperChars)
    THEN LowerChars[CHOOSE i \in DOMAIN UpperChars : UpperChars[i] = c]
    ELSE c

LowerStr(s) == [i \in DOMAIN s |-> Lower(s[i])]

\* \s and str.strip(): whitespace.  \S: anything else.
IsWs(c) == c \in {" ", "\n", "\t", "\r"}
IsNonWs(c) == ~IsWs(c)
\* \w: letters, digits and the underscore.
IsWord(c) == c \in Range(UpperChars) \cup Range(LowerChars) \cup Range(DigitChars) \cup {"_"}

Min(S) == CHOOSE x \in S : \A y \in S : x <= y

\* The literal lit occurs in s at position p.
StartsWithAt(s, p, lit) ==
    /\ p >= 1
    /\ p + Len(lit) - 1 <= Len(s)
    /\ SubSeq(s, p, p + Len(lit) - 1) = lit

\* str.find from position `from`: the first position of lit, 0 when there is none
\* (Python's -1; positions here are 1-based).
Find(s, lit, from) ==
    LET P == {p \in from..Len(s) : StartsWithAt(s, p, lit)}
    IN  IF P = {} THEN 0 ELSE Min(P)

\* `lit in s`
Contains(s, lit) == Find(s, lit, 1) # 0

\* str.startswith
StartsWith(s, lit) == StartsWithAt(s, 1, lit)

\* The position just after the longest run of characters of one class that starts
\* at p: what a greedy \s*, \S+ or \w* consumes.
RunEndWs(s, p) == Min({q \in p..(Len(s) + 1) : q = Len(s) + 1 \/ ~IsWs(s[q])})
RunEndNonWs(s, p) == Min({q \in p..(Len(s) + 1) : q = Len(s) + 1 \/ IsWs(s[q])})
RunEndWord(s, p) == Min({q \in p..(Len(s) + 1) : q = Len(s) + 1 \/ ~IsWord(s[q])})

\* str.strip()
Strip(s) ==
    LET K == {i \in DOMAIN s : ~IsWs(s[i])}
    IN  IF K = {} THEN <<>>
        ELSE SubSeq(s, Min(K), CHOOSE j \in K : \A k \in K : k <= j)

\* s[:n]
Take(s, n) == SubSeq(s, 1, IF Len(s) < n THEN Len(s) ELSE n)

\* s[p:] for a 1-based p
Drop(s, p) == SubSeq(s, p, Len(s))

(***************************************************************************)
(* dict: insertion-ordered, assignment to an existing key keeps its place   *)
(***************************************************************************)
EmptyDict == <<>>
HasKey(d, k) == \E i \in DOMAIN d : d[i].name = k
Get(d, k) == d[CHOOSE i \in DOMAIN d : d[i].name = k].content
Keys(d) == [i \in DOMAIN d |-> d[i].name]
\* an assignment that adds the new content to the old
DictSet_Merge(d, k, v) ==
    IF HasKey(d, k)
    THEN [i \in DOMAIN d |-> IF d[i].name = k THEN [name |-> k, content |-> d[i].content \o v]
                             ELSE d[i]]
    ELSE Append(d, [name |-> k, content |-> v])
\* d[k] = v
DictSet(d, k, v) ==
    IF HasKey(d, k)
    THEN [i \in DOMAIN d |-> IF d[i].name = k THEN [name |-> k, content |-> v] ELSE d[i]]
    ELSE Append(d, [name |-> k, content |-> v])

(***************************************************************************)
(* Literals of _parse_web_files                                             *)
(***************************************************************************)
\* The backtick cannot be written in a string of this language: it is named.
Backtick == "BACKTICK"
Fence == <<Backtick, Backtick, Backtick>>
NameIndexHtml == <<"i","n","d","e","x",".","h","t","m","l">>
NameStylesCss == <<"s","t","y","l","e","s",".","c","s","s">>
NameStyleCss == <<"s","t","y","l","e",".","c","s","s">>
NameScriptJs == <<"s","c","r","i","p","t",".","j","s">>
NameAppJs == <<"a","p","p",".","j","s">>
Doctype == <<"<","!","D","O","C","T","Y","P","E">>
HtmlOpen == <<"<","h","t","m","l">>

\* pattern1's extensions (?:html|css|js|json)
Extensions == << <<"h","t","m","l">>, <<"c","s","s">>, <<"j","s">>, <<"j","s","o","n">> >>
\* html_patterns, css_patterns, js_patterns, in the order the code tries them
HtmlTags == << <<"h","t","m","l">>, <<"H","T","M","L">>, <<"h","t","m">> >>
CssTags == << <<"c","s","s">>, <<"C","S","S">> >>
JsTags == << <<"j","a","v","a","s","c","r","i","p","t">>, <<"j","s">>,
             <<"J","a","v","a","S","c","r","i","p","t">>, <<"J","S">> >>

\* The fixed text of the two generated documents, each kept as one element.
ScriptWrapHead == <<"<!DOCTYPE html>..<div id=app><script>">>
ScriptWrapTail == <<"</script></div></body></html>">>
PlaceholderHead == <<"<!DOCTYPE html>..<h1>Generated Content</h1><pre>">>
PlaceholderTail == <<"</pre></div></body></html>">>
\* response[:2000]
PlaceholderLimit == 2000

(***************************************************************************)
(* The regular expressions of _parse_web_files.                             *)
(*                                                                          *)
(* Every pattern is  FENCE label \s*\n (.*?) FENCE  with re.DOTALL.  After  *)
(* the label the greedy \s* takes the whole whitespace run and gives back   *)
(* up to its last newline, so the pattern matches at p exactly when the     *)
(* label matches, the whitespace run that follows it holds a newline, and a *)
(* fence occurs after that run; the lazy (.*?) then stops at the first such *)
(* fence.  Group 1 starts inside the whitespace run: the code strips it.    *)
(***************************************************************************)
\* The whitespace run at p holds a newline: \s*\n matches there.
NewlineInRun(s, p) == \E q \in p..(RunEndWs(s, p) - 1) : s[q] = "\n"

\* \s*\n(.*?)FENCE matches at p (the position after the label).
TailMatches(s, p) == NewlineInRun(s, p) /\ Find(s, Fence, RunEndWs(s, p)) # 0
\* The closing fence, and the stripped body before it.
CloseAt(s, p) == Find(s, Fence, RunEndWs(s, p))
\* the body as group 1 holds it, not stripped
BodyAt_Raw(s, p) == SubSeq(s, RunEndWs(s, p), CloseAt(s, p) - 1)
BodyAt(s, p) == Strip(SubSeq(s, RunEndWs(s, p), CloseAt(s, p) - 1))

\* \S+\.(?:html|css|js|json) with re.IGNORECASE, which must end where the run of
\* non-whitespace ends (a whitespace character has to follow it): the run is the
\* file name, and it ends in a dot and an extension after at least one character.
IsFileLabel(r) ==
    \E i \in DOMAIN Extensions :
        LET ext == Extensions[i]
        IN  /\ Len(r) >= Len(ext) + 2
            /\ LowerStr(SubSeq(r, Len(r) - Len(ext) + 1, Len(r))) = ext
            /\ r[Len(r) - Len(ext)] = "."

\* pattern1 = FENCE(\S+\.(?:html|css|js|json))\s*\n(.*?)FENCE matches at p.
Pattern1At(s, p) ==
    /\ StartsWithAt(s, p, Fence)
    /\ IsFileLabel(SubSeq(s, p + 3, RunEndNonWs(s, p + 3) - 1))
    /\ TailMatches(s, RunEndNonWs(s, p + 3))

\* re.findall(pattern1, ...) from position p on, each match stored as it is found:
\* files[filename] = content.strip().  The next match is the leftmost one from p on,
\* and the scan resumes after its closing fence.
RECURSIVE Rule1Scan(_, _, _)
Rule1Scan(s, p, files) ==
    LET P == {q \in p..Len(s) : Pattern1At(s, q)}
    IN  IF P = {} THEN files
        ELSE LET q == Min(P)
                 e == RunEndNonWs(s, q + 3)
             IN  Rule1Scan(s, CloseAt(s, e) + 3,
                           DictSet(files, SubSeq(s, q + 3, e - 1), BodyAt(s, e)))

Rule1(s) == Rule1Scan(s, 1, EmptyDict)

\* FENCE tag \s*\n(.*?)FENCE matches at p (case-sensitive: re.DOTALL only).
TagAt(s, p, tag) ==
    /\ StartsWithAt(s, p, Fence \o tag)
    /\ TailMatches(s, p + 3 + Len(tag))

\* re.search: the leftmost match of one tag, 0 when there is none.
TagSearch(s, tag) ==
    LET P == {p \in 1..Len(s) : TagAt(s, p, tag)}
    IN  IF P = {} THEN 0 ELSE Min(P)

\* for pattern in patterns: match = re.search(...); if match: ...; break
\* The first tag of the list that matches anywhere, 0 when none does.
FirstTag(s, tags) ==
    LET T == {i \in DOMAIN tags : TagSearch(s, tags[i]) # 0}
    IN  IF T = {} THEN 0 ELSE Min(T)

TagBody(s, tags) ==
    LET tag == tags[FirstTag(s, tags)]
    IN  BodyAt(s, TagSearch(s, tag) + 3 + Len(tag))

\* Pattern 2, html: only when "index.html" is not yet a key.
Rule2Html(s, files) ==
    IF ~HasKey(files, NameIndexHtml) /\ FirstTag(s, HtmlTags) # 0
    THEN DictSet(files, NameIndexHtml, TagBody(s, HtmlTags))
    ELSE files

\* Rule2Css without its guard: the tagged block is stored whatever is there already.
Rule2Css_NoGuard(s, files) ==
    IF FirstTag(s, CssTags) # 0
    THEN DictSet(files, NameStylesCss, TagBody(s, CssTags))
    ELSE files

\* css: only when neither "styles.css" nor "style.css" is a key.
Rule2Css(s, files) ==
    IF ~HasKey(files, NameStylesCss) /\ ~HasKey(files, NameStyleCss)
       /\ FirstTag(s, CssTags) # 0
    THEN DictSet(files, NameStylesCss, TagBody(s, CssTags))
    ELSE files

\* Rule2Js without its guard: the tagged block is stored whatever is there already.
Rule2Js_Overwrite(s, files) ==
    IF FirstTag(s, JsTags) # 0
    THEN DictSet(files, NameScriptJs, TagBody(s, JsTags))
    ELSE files

\* js: only when neither "script.js" nor "app.js" is a key.
Rule2Js(s, files) ==
    IF ~HasKey(files, NameScriptJs) /\ ~HasKey(files, NameAppJs)
       /\ FirstTag(s, JsTags) # 0
    THEN DictSet(files, NameScriptJs, TagBody(s, JsTags))
    ELSE files

\* generic_pattern = FENCE(?:\w*)\s*\n(.*?)FENCE matches at p: the greedy \w* takes
\* the whole run of word characters, and whitespace has to follow it.
GenericAt(s, p) ==
    /\ StartsWithAt(s, p, Fence)
    /\ TailMatches(s, RunEndWord(s, p + 3))

\* matches[0] of re.findall(generic_pattern, ...): the leftmost match, 0 when none.
GenericFirst(s) ==
    LET P == {p \in 1..Len(s) : GenericAt(s, p)}
    IN  IF P = {} THEN 0 ELSE Min(P)

\* Fallback: the first code block as index.html, wrapped when it holds no "<".
Rule3(s, files) ==
    IF files = EmptyDict /\ GenericFirst(s) # 0
    THEN LET content == BodyAt(s, RunEndWord(s, GenericFirst(s) + 3))
         IN  IF StartsWith(content, Doctype) \/ StartsWith(content, HtmlOpen)
                \/ Contains(content, <<"<">>)
             THEN DictSet(files, NameIndexHtml, content)
             ELSE DictSet(files, NameIndexHtml, ScriptWrapHead \o content \o ScriptWrapTail)
    ELSE files

\* the placeholder document around the whole response
Placeholder_Whole(s) == PlaceholderHead \o s \o PlaceholderTail

\* The placeholder document around response[:2000].
Placeholder(s) == PlaceholderHead \o Take(s, PlaceholderLimit) \o PlaceholderTail

\* Rule45 without its else branch: no placeholder document.
Rule45_NoPlaceholder(s, files) ==
    IF files = EmptyDict /\ (Contains(s, Doctype) \/ Contains(s, HtmlOpen))
    THEN DictSet(files, NameIndexHtml,
                 Strip(Drop(s, IF Find(s, Doctype, 1) = 0 THEN Find(s, HtmlOpen, 1)
                                                           ELSE Find(s, Doctype, 1))))
    ELSE files

\* Ultimate fallback: the text from the doctype (else from the html tag) on, or
\* the placeholder document.
Rule45(s, files) ==
    IF files = EmptyDict
    THEN IF Contains(s, Doctype) \/ Contains(s, HtmlOpen)
         THEN LET html_start == IF Find(s, Doctype, 1) = 0
                                THEN Find(s, HtmlOpen, 1)
                                ELSE Find(s, Doctype, 1)
              IN  IF html_start # 0
                  THEN DictSet(files, NameIndexHtml, Strip(Drop(s, html_start)))
                  ELSE files
         ELSE DictSet(files, NameIndexHtml, Placeholder(s))
    ELSE files

\* WebCodeAgent._parse_web_files
ParseWebFiles(s) ==
    Rule45(s, Rule3(s, Rule2Js(s, Rule2Css(s, Rule2Html(s, Rule1(s))))))

(***************************************************************************)
(* Responses: the pieces an LLM response is assembled from.                 *)
(* A fenced block is an opening fence with its label, a newline, the body,  *)
(* a newline, and a closing fence that ends its line.                       *)
(***************************************************************************)
Block(label, body) == Fence \o label \o <<"\n">> \o body \o <<"\n">> \o Fence \o <<"\n">>

\* kind: "file" (labelled with a file name), "tag" (a language tag), "bare" (no
\* label), "text" (no backtick), "broken" (a fence that is no whole block).
Piece(kind, label, body, text) == [kind |-> kind, label |-> label, body |-> body, text |-> text]
FileBlock(name, body) == Piece("file", name, body, Block(name, body))
TagBlock(tag, body) == Piece("tag", tag, body, Block(tag, body))
Text(t) == Piece("text", <<>>, <<>>, t)

\* A label that is no file name of the web project and no run of word characters.
NameMainPy == <<"m","a","i","n",".","p","y">>
\* Prose longer than the placeholder document embeds.
LongText == [i \in 1..(PlaceholderLimit + 1) |-> IF i <= PlaceholderLimit THEN "a" ELSE "b"]

Pieces ==
    << FileBlock(NameIndexHtml, <<"<","h","1",">">>),
       FileBlock(NameStylesCss, <<"p","{","}">>),
       FileBlock(NameScriptJs, <<"f","(",")">>),
       TagBlock(<<"h","t","m","l">>, <<"<","p",">">>),
       TagBlock(<<"c","s","s">>, <<"q","{","}">>),
       TagBlock(<<"j","s">>, <<"g","(",")">>),
       TagBlock(<<"j","a","v","a","s","c","r","i","p","t">>, <<"k","(",")">>),
       Piece("bare", <<>>, <<"x">>, Block(<<>>, <<"x">>)),
       Text(<<"S","u","r","e","!"," ">>),
       Text(<<" ","\n">>),
       Text(<<"<","h","t","m","l",">">>),
       Piece("broken", <<>>, <<>>, Fence),
       Piece("broken", <<"j","s">>, <<"u">>, Fence \o <<"j","s","\n","u">>),
       TagBlock(<<"C","s","s">>, <<"r","{","}">>),
       FileBlock(NameStyleCss, <<"s","{","}">>),
       FileBlock(NameAppJs, <<"h","(",")">>),
       TagBlock(<<"h","t","m","l">>, <<"<","b",">">>),
       Piece("other", NameMainPy, <<"y">>, Block(NameMainPy, <<"y">>)),
       Piece("other", <<"p","y">>, <<"z">>, Block(<<"p","y">>, <<"z">>)),
       Text(<<" ">> \o Doctype \o <<">"," ">>),
       Text(LongText) >>

\* The longest response, in pieces.
MaxPieces == 3

RECURSIVE Concat(_)
Concat(ps) == IF ps = <<>> THEN <<>> ELSE Pieces[Head(ps)].text \o Concat(Tail(ps))

\* The long prose comes on its own or next to one other piece of prose.
LongPiece == Len(Pieces)
ProsePieces == {i \in DOMAIN Pieces : Pieces[i].kind = "text" /\ i # LongPiece}
LongSeqs == {<<LongPiece>>} \cup {<<i, LongPiece>> : i \in ProsePieces}
                           \cup {<<LongPiece, i>> : i \in ProsePieces}

PieceSeqs == UNION {[1..n -> DOMAIN Pieces \ {LongPiece}] : n \in 0..MaxPieces} \cup LongSeqs

ParseInit ==
    /\ segs \in PieceSeqs
    /\ response = Concat(segs)
    /\ parsed = EmptyDict
    /\ ppc = "input"

\* files = self._parse_web_files(response)
Parse ==
    /\ ppc = "input"
    /\ parsed' = ParseWebFiles(response)
    /\ ppc' = "parsed"
    /\ UNCHANGED <<segs, response, runVars, sessVars, lifeVars, turnVars, pairVars, moreVars>>


(***************************************************************************)
(* CodeAgent.run: generate, execute, and fix on errors                      *)
(***************************************************************************)
MAX_RETRIES == 3

NoCode == "none"
Codes == {"code1", "code2"}
Languages == {"python", "javascript", "bash", "ruby"}
SupportedLanguages == {"python", "javascript", "bash"}
\* stderr of an execution: "" or an error text
Stderrs == {"", "Traceback", "SyntaxError"}

NoResult == [stdout |-> "", stderr |-> "", exit_code |-> 0, none |-> TRUE]
\* SandboxManager.execute_code: what the sandbox answers for a supported language
ExecResults ==
    {[stdout |-> o, stderr |-> e, exit_code |-> x, none |-> FALSE] :
        o \in {"", "out"}, e \in Stderrs, x \in {0, 1}}
\* ... and its answer without running anything for any other language
Unsupported == [stdout |-> "", stderr |-> "", exit_code |-> 1, none |-> FALSE]

ExecuteCode(lang) == IF lang \in SupportedLanguages THEN ExecResults ELSE {Unsupported}

\* What run() asks of its collaborators, as it is logged here.
GenCall(c) == [call |-> "generate_code", code |-> c, stderr |-> ""]
ExecCall(c, r) == [call |-> "execute_code", code |-> c, stderr |-> r.stderr, result |-> r]
FixCall(c, e) == [call |-> "analyze_error", code |-> c, stderr |-> e]

RunQuiet ==
    /\ rpc = "off"
    /\ language = "python"
    /\ auto_fix = TRUE
    /\ code = NoCode
    /\ exec_result = NoResult
    /\ retries = 0
    /\ run_result = NoResult
    /\ run_log = <<>>

RunInit ==
    /\ rpc = "start"
    /\ language \in Languages
    /\ auto_fix \in BOOLEAN
    /\ code = NoCode
    /\ exec_result = NoResult
    /\ retries = 0
    /\ run_result = NoResult
    /\ run_log = <<>>

\* An exception of the LLM or of the sandbox leaves run() through its caller.
RunRaise ==
    /\ rpc \in {"start", "generated", "fixing"} \/ (rpc = "executed" /\ exec_result.stderr # "")
    /\ rpc' = "raised"
    /\ UNCHANGED <<language, auto_fix, code, exec_result, retries, run_result, run_log, parseVars, sessVars, lifeVars, turnVars, pairVars, moreVars>>

\* gen_result = self.generate(prompt, language); code = gen_result["code"]
RunGenerate ==
    /\ rpc = "start"
    /\ \E c \in Codes :
          /\ code' = c
          /\ run_log' = Append(run_log, GenCall(c))
    /\ rpc' = "generated"
    /\ UNCHANGED <<language, auto_fix, exec_result, retries, run_result, parseVars, sessVars, lifeVars, turnVars, pairVars, moreVars>>

\* exec_result = self.execute(code, language); retries = 0
RunExecute ==
    /\ rpc = "generated"
    /\ \E r \in ExecuteCode(language) :
          /\ exec_result' = r
          /\ run_log' = Append(run_log, ExecCall(code, r))
    /\ retries' = 0
    /\ rpc' = "executed"
    /\ UNCHANGED <<language, auto_fix, code, run_result, parseVars, sessVars, lifeVars, turnVars, pairVars, moreVars>>

\* The loop bound taken one too small: the last retry is never made.
RetriesLeft_OneFewer(n) == n + 1 < MAX_RETRIES

\* retries < self.MAX_RETRIES
RetriesLeft(n) == n < MAX_RETRIES

\* while auto_fix and retries < self.MAX_RETRIES, stderr not looked at
LoopCondition_IgnoreStderr == auto_fix /\ RetriesLeft(retries)

\* while auto_fix and exec_result.get("stderr") and retries < self.MAX_RETRIES
LoopCondition == auto_fix /\ exec_result.stderr # "" /\ RetriesLeft(retries)

\* retries += 1; fix_result = self.llm.analyze_error(code, stderr, language);
\* code = fix_result["code"]
RunFix ==
    /\ rpc = "executed"
    /\ LoopCondition
    /\ retries' = retries + 1
    /\ \E c \in Codes :
          /\ code' = c
          /\ run_log' = Append(run_log, FixCall(code, exec_result.stderr))
    /\ rpc' = "fixing"
    /\ UNCHANGED <<language, auto_fix, exec_result, run_result, parseVars, sessVars, lifeVars, turnVars, pairVars, moreVars>>

\* the re-execution with its result dropped: exec_result keeps the earlier one
RunReExecute_Stale ==
    /\ rpc = "fixing"
    /\ \E r \in ExecuteCode(language) :
          /\ run_log' = Append(run_log, ExecCall(code, r))
          /\ rpc' = IF r.stderr = "" THEN "break" ELSE "executed"
    /\ UNCHANGED <<language, auto_fix, code, exec_result, retries, run_result, parseVars, sessVars, lifeVars, turnVars, pairVars, moreVars>>

\* exec_result = self.execute(code, language); if not stderr: break
RunReExecute ==
    /\ rpc = "fixing"
    /\ \E r \in ExecuteCode(language) :
          /\ exec_result' = r
          /\ run_log' = Append(run_log, ExecCall(code, r))
          /\ rpc' = IF r.stderr = "" THEN "break" ELSE "executed"
    /\ UNCHANGED <<language, auto_fix, code, retries, run_result, parseVars, sessVars, lifeVars, turnVars, pairVars, moreVars>>

\* return {"code": code, "output": ..., "errors": ..., "exit_code": ..., "retries": retries}
RunReturn ==
    /\ rpc = "break" \/ (rpc = "executed" /\ ~LoopCondition)
    /\ run_result' = [code |-> code, output |-> exec_result.stdout,
                      errors |-> exec_result.stderr, exit_code |-> exec_result.exit_code,
                      retries |-> retries]
    /\ rpc' = "done"
    /\ UNCHANGED <<language, auto_fix, code, exec_result, retries, run_log, parseVars, sessVars, lifeVars, turnVars, pairVars, moreVars>>

RunNext == RunGenerate \/ RunExecute \/ RunFix \/ RunReExecute \/ RunReturn \/ RunRaise

ParseQuiet ==
    /\ segs = <<>>
    /\ response = <<>>
    /\ parsed = EmptyDict
    /\ ppc = "off"

(***************************************************************************)
(* The sandbox (SandboxManager)                                             *)
(***************************************************************************)
\* How one call of SandboxManager.upload_file goes:
\*   "sdk"       fs.upload_file wrote the file;
\*   "fallback"  fs.upload_file raised and the shell command wrote the file;
\*   "unwritten" fs.upload_file raised and the shell command ended with a
\*               non-zero exit code, which upload_file does not read;
\*   "raise"     fs.upload_file raised and so did process.exec.
UploadOutcomes == {"sdk", "fallback", "unwritten", "raise"}
\* upload_file returns True unless process.exec raised.
UploadReturns(o) == o # "raise"
\* The sandbox after upload_file(WORKSPACE_DIR/name, content).
Uploaded(rem, name, content, o) ==
    IF o \in {"sdk", "fallback"} THEN DictSet(rem, name, content) ELSE rem

\* for filename, content in files.items(): upload_file(...); project_files[...] = ...
\* from entry i on, the calls going as outs says; ok is FALSE when one of them raised.
RECURSIVE UploadAll(_, _, _, _)
UploadAll(files, i, outs, st) ==
    IF i > Len(files) THEN st
    ELSE IF ~UploadReturns(outs[i]) THEN [st EXCEPT !.ok = FALSE]
    ELSE UploadAll(files, i + 1, outs,
                   [remote |-> Uploaded(st.remote, files[i].name, files[i].content, outs[i]),
                    store |-> DictSet(st.store, files[i].name, files[i].content),
                    ok |-> TRUE])

\* Session.get_preview_url: the sandbox's preview link for port 8000.
PreviewLink == "https://8000-sandbox/ token"

(***************************************************************************)
(* Inputs of the session's handlers                                         *)
(***************************************************************************)
\* Requests handled in one behaviour.
MaxTurns == 2
\* Chunks of one LLM stream.
MaxChunks == 2

Prompts == {"make a page", "add a script"}
\* Full responses of the LLM to a batch request, in pieces.
BatchResponses == { <<1>>, <<6>>, <<1, 6>>, <<9>> }
\* delta.content of the chunks of a stream; <<>> is a chunk without text.
NoText == <<>>
StreamChunks == {Pieces[1].text, Pieces[6].text, Pieces[13].text, NoText}
\* Direct edits.
EditNames == {NameIndexHtml, NameAppJs}
EditContents == {<<"e">>}

HistoryEntry(prompt, files) == [action |-> "generate_web", prompt |-> prompt, files |-> Keys(files)]

\* The events of the WebSocket; every content is a sequence.
\* a fragment sent on as a code event
TokenEvent_AsCode(c) == [type |-> "code", content |-> c]
TokenEvent(c) == [type |-> "token", content |-> c]
CodeEvent(f) == [type |-> "code", content |-> <<f.name, f.content>>]
PreviewEvent == [type |-> "preview", content |-> <<PreviewLink>>]
CompleteEvent(names) == [type |-> "complete", content |-> names]
ErrorEvent(msg) == [type |-> "error", content |-> <<msg>>]

\* the whole history replayed: self.history
LastEntries_All(hist) == hist
\* self.history[-3:]
HistoryWindow == 3
LastEntries(hist) == SubSeq(hist, IF Len(hist) > HistoryWindow THEN Len(hist) - HistoryWindow + 1
                                  ELSE 1, Len(hist))

\* The messages of a turn.  files is what ", ".join(item.get("files", [])) lists.
SystemMessage == [role |-> "system", content |-> "WEB_SYSTEM_PROMPT", files |-> <<>>]
UserMessage(prompt) == [role |-> "user", content |-> prompt, files |-> <<>>]
AssistantMessage(intro, files) == [role |-> "assistant", content |-> intro, files |-> files]
\* The text before the file list, in generate_web_code and in stream_generate.
BatchIntro == "I created the following files: "
StreamIntro == "I created these files: "

\* for item in ...: if item.get("action") == "generate_web": a user message and an
\* assistant message
RECURSIVE Replay(_, _)
Replay(items, intro) ==
    IF items = <<>> THEN <<>>
    ELSE (IF Head(items).action = "generate_web"
          THEN <<UserMessage(Head(items).prompt), AssistantMessage(intro, Head(items).files)>>
          ELSE <<>>) \o Replay(Tail(items), intro)

\* messages as generate_web_code and stream_generate build them
BuildMessages(hist, prompt, intro) ==
    <<SystemMessage>> \o Replay(LastEntries(hist), intro) \o <<UserMessage(prompt)>>

\* self.llm.chat(messages, ...) as it is kept here
Request(hist, prompt, intro) ==
    [messages |-> BuildMessages(hist, prompt, intro), prompt |-> prompt, history |-> hist]
NoRequest == [messages |-> <<>>, prompt |-> "none", history |-> <<>>]

SessInit ==
    /\ registered = FALSE
    /\ sbx = "none"
    /\ remote = EmptyDict
    /\ project_files = EmptyDict
    /\ history = <<>>
    /\ server_running = FALSE
    /\ preview_url = "none"
    /\ turns = 0
    /\ hpc = "idle"
    /\ hkind = "none"
    /\ hstatus = "none"
    /\ happended = 0
    /\ hraised = "none"
    /\ llm_calls = 0
    /\ llm_request = NoRequest
    /\ wpc = "closed"
    /\ wprompt = "none"
    /\ chunks = <<>>
    /\ full_response = <<>>
    /\ wfiles = EmptyDict
    /\ wnext = 0
    /\ events = <<>>
    /\ wstatus = "none"
    /\ wraised = "none"
    /\ wpreview = FALSE
    /\ wappended = 0

\* No session is used: the state the other specifications keep.
SessQuiet == SessInit

\* SessionManager.create_session, when the sandbox and its workspace could be
\* created (when they could not, no session is registered).
CreateSession ==
    /\ ~registered
    /\ registered' = TRUE
    /\ sbx' = "ready"
    /\ UNCHANGED <<remote, project_files, history, server_running, preview_url, turns>>
    /\ UNCHANGED <<restVars, wsVars, parseVars, runVars, lifeVars, turnVars, pairVars, moreVars>>

\* A request of the session is being handled.  The requests of one session are
\* taken here one after the other: a request starts when none is in flight.
Busy == hpc # "idle" \/ wpc \notin {"idle", "closed"}

\* What is kept of a finished request (its locals, its events, how it ended) is
\* dropped when the next request starts.
WsForget ==
    /\ wpc' = wpc
    /\ wprompt' = "none"
    /\ chunks' = <<>>
    /\ full_response' = <<>>
    /\ wfiles' = EmptyDict
    /\ wnext' = 0
    /\ events' = <<>>
    /\ wstatus' = "none"
    /\ wraised' = "none"
    /\ wpreview' = FALSE
    /\ wappended' = 0

RestForget ==
    /\ hpc' = hpc
    /\ hkind' = "none"
    /\ hstatus' = "none"
    /\ happended' = 0
    /\ hraised' = "none"

\* start_preview_server issues its two commands: the server is not marked running
\* and there is a sandbox.
NeedsStart == ~server_running /\ sbx # "none"

(***************************************************************************)
(* POST /chat and PUT /files/{session_id}/{path}                            *)
(***************************************************************************)
\* The request ends with an error status.
RestFail ==
    /\ hstatus' = "failed"
    /\ hpc' = "idle"

\* chat: the LLM call or the workspace command raises, nothing was uploaded.
ChatBatchRaise ==
    /\ registered /\ ~Busy /\ turns < MaxTurns
    /\ turns' = turns + 1
    /\ hkind' = "chat"
    /\ happended' = 0
    /\ \E prompt \in Prompts : llm_request' = Request(history, prompt, BatchIntro)
    /\ llm_calls' = 1
    /\ hraised' \in {"llm error", "workspace error"}
    /\ RestFail
    /\ UNCHANGED <<registered, sbx, remote, project_files, history, server_running, preview_url>>
    /\ WsForget
    /\ UNCHANGED <<parseVars, runVars, lifeVars, pairVars, moreVars>>

\* chat: session.agent.generate_web_code(request.prompt)
ChatBatch ==
    /\ registered /\ ~Busy /\ turns < MaxTurns
    /\ turns' = turns + 1
    /\ hkind' = "chat"
    /\ \E prompt \in Prompts, r \in BatchResponses :
         LET files == ParseWebFiles(Concat(r))
         IN  \E outs \in [1..Len(files) -> UploadOutcomes] :
               LET st == UploadAll(files, 1, outs,
                                   [remote |-> remote, store |-> project_files, ok |-> TRUE])
               IN  /\ llm_request' = Request(history, prompt, BatchIntro)
                   /\ remote' = st.remote
                   /\ project_files' = st.store
                   /\ IF st.ok
                      THEN /\ history' = Append(history, HistoryEntry(prompt, files))
                           /\ happended' = 1
                           /\ hraised' = "none"
                           /\ hstatus' = "running"
                           /\ hpc' = "deploy"
                      ELSE /\ history' = history
                           /\ happended' = 0
                           /\ hraised' = "upload error"
                           /\ RestFail
    /\ llm_calls' = 1
    /\ UNCHANGED <<registered, sbx, server_running, preview_url>>
    /\ WsForget
    /\ UNCHANGED <<parseVars, runVars, lifeVars, pairVars, moreVars>>

\* update_file: session.update_file(path, content), the upload raising or not
RestUpdate ==
    /\ registered /\ ~Busy /\ turns < MaxTurns
    /\ turns' = turns + 1
    /\ hkind' = "update"
    /\ happended' = 0
    /\ \E name \in EditNames, content \in EditContents, o \in UploadOutcomes :
         IF sbx = "none"
         THEN /\ hstatus' = "running" /\ hpc' = "deploy"
              /\ hraised' = "none"
              /\ UNCHANGED <<remote, project_files>>
         ELSE IF UploadReturns(o)
         THEN /\ remote' = Uploaded(remote, name, content, o)
              /\ project_files' = DictSet(project_files, name, content)
              /\ hraised' = "none"
              /\ hstatus' = "running" /\ hpc' = "deploy"
         ELSE /\ RestFail
              /\ hraised' = "upload error"
              /\ UNCHANGED <<remote, project_files>>
    /\ llm_calls' = 0
    /\ UNCHANGED <<registered, sbx, history, server_running, preview_url, llm_request>>
    /\ WsForget
    /\ UNCHANGED <<parseVars, runVars, lifeVars, pairVars, moreVars>>

\* session.deploy_and_preview(): start_preview_server up to its sleep
RestStart ==
    /\ hpc = "deploy"
    /\ \/ hpc' = (IF NeedsStart THEN "settle" ELSE "preview") /\ hstatus' = hstatus
          /\ hraised' = hraised
       \/ NeedsStart /\ RestFail /\ hraised' = "deploy error"
    /\ UNCHANGED <<hkind, happended, agentVars, wsVars, parseVars, runVars, lifeVars, turnVars, pairVars, moreVars>>

\* ... server_running = True after the sleep, then get_preview_url
RestFinish ==
    /\ hpc \in {"settle", "preview"}
    /\ server_running' = (IF hpc = "settle" THEN TRUE ELSE server_running)
    /\ \/ /\ preview_url' = (IF sbx = "ready" THEN PreviewLink ELSE preview_url)
          /\ hstatus' = "ok"
          /\ hpc' = "idle"
          /\ hraised' = hraised
       \/ /\ sbx = "ready"
          /\ preview_url' = preview_url
          /\ hraised' = "preview error"
          /\ RestFail
    /\ UNCHANGED <<hkind, happended, registered, sbx, remote, project_files, history, turns>>
    /\ UNCHANGED <<wsVars, parseVars, runVars, lifeVars, turnVars, pairVars, moreVars>>

(***************************************************************************)
(* The WebSocket endpoint                                                   *)
(***************************************************************************)
\* websocket_endpoint up to its loop: "Session not found" and close, or the loop.
WsConnect ==
    /\ wpc = "closed" /\ ~Busy
    /\ IF registered
       THEN wpc' = "idle" /\ events' = <<>>
       ELSE wpc' = "closed" /\ events' = <<ErrorEvent("Session not found")>>
    /\ wstatus' = "none"
    /\ UNCHANGED <<wprompt, chunks, full_response, wfiles, wnext, wraised, wpreview, wappended>>
    /\ UNCHANGED <<agentVars, restVars, parseVars, runVars, lifeVars, turnVars, pairVars, moreVars>>

\* except Exception as e: send {"type": "error", "content": str(e)}; the loop goes on
\* with the error sent and then a complete event
WsFail_ThenComplete(msg) ==
    /\ events' = events \o <<ErrorEvent(msg), CompleteEvent(Keys(project_files))>>
    /\ wstatus' = "failed"
    /\ wpc' = "idle"

\* except Exception as e: send {"type": "error", "content": str(e)}
WsFail(msg) ==
    /\ events' = Append(events, ErrorEvent(msg))
    /\ wstatus' = "failed"
    /\ wpc' = "idle"

\* A chat message arrives; stream_generate starts the LLM stream, or that raises.
WsChat ==
    /\ wpc = "idle" /\ ~Busy /\ turns < MaxTurns
    /\ turns' = turns + 1
    /\ \E prompt \in Prompts :
          /\ wprompt' = prompt
          /\ llm_request' = Request(history, prompt, StreamIntro)
    /\ llm_calls' = 1
    /\ chunks' = <<>>
    /\ full_response' = <<>>
    /\ wfiles' = EmptyDict
    /\ wnext' = 0
    /\ wpreview' = FALSE
    /\ wappended' = 0
    /\ \/ /\ wpc' = "streaming"
          /\ events' = <<>>
          /\ wstatus' = "running"
          /\ wraised' = "none"
       \/ /\ wraised' = "llm error"
          /\ events' = <<ErrorEvent("llm error")>>
          /\ wstatus' = "failed"
          /\ wpc' = "idle"
    /\ UNCHANGED <<registered, sbx, remote, project_files, history, server_running, preview_url>>
    /\ RestForget
    /\ UNCHANGED <<parseVars, runVars, lifeVars, pairVars, moreVars>>

\* _stream_response: if chunk.choices[0].delta.content: yield it
Yielded(c) == c # NoText

\* full_response += chunk, written the other way round
Accumulate_Prepend(text, c) == c \o text

\* full_response += chunk
Accumulate(text, c) == text \o c

\* One chunk of the stream: yielded by _stream_response if it has text, then
\* accumulated by stream_generate and sent on as a token event.
WsChunk ==
    /\ wpc = "streaming" /\ Len(chunks) < MaxChunks
    /\ \E c \in StreamChunks :
          /\ chunks' = Append(chunks, c)
          /\ IF Yielded(c)
             THEN /\ full_response' = Accumulate(full_response, c)
                  /\ events' = Append(events, TokenEvent(c))
             ELSE UNCHANGED <<full_response, events>>
    /\ UNCHANGED <<wpc, wprompt, wfiles, wnext, wstatus, wraised, wpreview, wappended>>
    /\ UNCHANGED <<agentVars, restVars, parseVars, runVars, lifeVars, turnVars, pairVars, moreVars>>

\* the stream raises and the turn asks the LLM again
WsStreamRaise_Retry ==
    /\ wpc = "streaming" /\ llm_calls < 2
    /\ wraised' = "llm error"
    /\ llm_calls' = llm_calls + 1
    /\ UNCHANGED <<wpc, wprompt, chunks, full_response, wfiles, wnext, events, wstatus,
                   wpreview, wappended, llm_request>>
    /\ UNCHANGED <<agentVars, restVars, parseVars, runVars, lifeVars, pairVars, moreVars>>

\* The stream raises between two chunks.
WsStreamRaise ==
    /\ wpc = "streaming"
    /\ wraised' = "llm error"
    /\ WsFail("llm error")
    /\ UNCHANGED <<wprompt, chunks, full_response, wfiles, wnext, wpreview, wappended>>
    /\ UNCHANGED <<agentVars, restVars, parseVars, runVars, lifeVars, turnVars, pairVars, moreVars>>

\* The stream ends: files = self._parse_web_files(full_response); self._ensure_sandbox()
WsStreamEnd ==
    /\ wpc = "streaming"
    /\ wfiles' = ParseWebFiles(full_response)
    /\ wnext' = 1
    /\ \/ /\ wpc' = "uploading"
          /\ UNCHANGED <<events, wstatus, wraised>>
       \/ /\ wraised' = "workspace error"
          /\ WsFail("workspace error")
    /\ UNCHANGED <<wprompt, chunks, full_response, wpreview, wappended>>
    /\ UNCHANGED <<agentVars, restVars, parseVars, runVars, lifeVars, turnVars, pairVars, moreVars>>

\* The next file: upload_file, project_files[filename] = content, yield a code event.
WsUpload ==
    /\ wpc = "uploading" /\ wnext <= Len(wfiles)
    /\ \E o \in UploadOutcomes :
         IF UploadReturns(o)
         THEN /\ remote' = Uploaded(remote, wfiles[wnext].name, wfiles[wnext].content, o)
              /\ project_files' = DictSet(project_files, wfiles[wnext].name, wfiles[wnext].content)
              /\ events' = Append(events, CodeEvent(wfiles[wnext]))
              /\ wnext' = wnext + 1
              /\ UNCHANGED <<wpc, wstatus, wraised>>
         ELSE /\ wraised' = "upload error"
              /\ WsFail("upload error")
              /\ UNCHANGED <<remote, project_files, wnext>>
    /\ UNCHANGED <<wprompt, chunks, full_response, wfiles, wpreview, wappended>>
    /\ UNCHANGED <<registered, sbx, history, server_running, preview_url, turns>>
    /\ UNCHANGED <<restVars, parseVars, runVars, lifeVars, turnVars, pairVars, moreVars>>

\* After the last file: self.history.append(...), the generator ends, and
\* deploy_and_preview starts the preview server, up to its sleep.
WsAppendDeploy ==
    /\ wpc = "uploading" /\ wnext > Len(wfiles)
    /\ history' = Append(history, HistoryEntry(wprompt, wfiles))
    /\ wappended' = wappended + 1
    /\ \/ /\ wpc' = (IF NeedsStart THEN "settle" ELSE "preview")
          /\ UNCHANGED <<events, wstatus, wraised>>
       \/ /\ NeedsStart
          /\ wraised' = "deploy error"
          /\ WsFail("deploy error")
    /\ UNCHANGED <<wprompt, chunks, full_response, wfiles, wnext, wpreview>>
    /\ UNCHANGED <<registered, sbx, remote, project_files, server_running, preview_url, turns>>
    /\ UNCHANGED <<restVars, parseVars, runVars, lifeVars, turnVars, pairVars, moreVars>>

\* server_running = True after the sleep; get_preview_url; the preview event if
\* there is a preview.
WsPreview ==
    /\ wpc \in {"settle", "preview"}
    /\ server_running' = (IF wpc = "settle" THEN TRUE ELSE server_running)
    /\ \/ /\ sbx = "ready"
          /\ preview_url' = PreviewLink
          /\ wpreview' = TRUE
          /\ events' = Append(events, PreviewEvent)
          /\ wpc' = "completing"
          /\ UNCHANGED <<wstatus, wraised>>
       \/ /\ sbx # "ready"
          /\ wpc' = "completing"
          /\ UNCHANGED <<preview_url, wpreview, events, wstatus, wraised>>
       \/ /\ sbx = "ready"
          /\ wraised' = "preview error"
          /\ WsFail("preview error")
          /\ UNCHANGED <<preview_url, wpreview>>
    /\ UNCHANGED <<wprompt, chunks, full_response, wfiles, wnext, wappended>>
    /\ UNCHANGED <<registered, sbx, remote, project_files, history, turns>>
    /\ UNCHANGED <<restVars, parseVars, runVars, lifeVars, turnVars, pairVars, moreVars>>

\* send {"type": "complete", "content": {"files": session.list_files()}}
WsComplete ==
    /\ wpc = "completing"
    /\ events' = Append(events, CompleteEvent(Keys(project_files)))
    /\ wstatus' = "ok"
    /\ wpc' = "idle"
    /\ UNCHANGED <<wprompt, chunks, full_response, wfiles, wnext, wraised, wpreview, wappended>>
    /\ UNCHANGED <<agentVars, restVars, parseVars, runVars, lifeVars, turnVars, pairVars, moreVars>>

\* An update_code message: session.update_file and start_preview_server up to its
\* sleep.  This branch has no handler of its own: an exception ends the connection.
WsUpdateCode ==
    /\ wpc = "idle" /\ ~Busy /\ turns < MaxTurns
    /\ turns' = turns + 1
    /\ events' = <<>>
    /\ wstatus' = "none"
    /\ wprompt' = "none"
    /\ chunks' = <<>>
    /\ full_response' = <<>>
    /\ wfiles' = EmptyDict
    /\ wnext' = 0
    /\ wraised' = "none"
    /\ wpreview' = FALSE
    /\ wappended' = 0
    /\ \E name \in EditNames, content \in EditContents, o \in UploadOutcomes :
         IF sbx = "none"
         THEN /\ wpc' = "update_preview"
              /\ UNCHANGED <<remote, project_files>>
         ELSE IF UploadReturns(o)
         THEN /\ remote' = Uploaded(remote, name, content, o)
              /\ project_files' = DictSet(project_files, name, content)
              /\ wpc' \in {IF NeedsStart THEN "update_settle" ELSE "update_preview"}
                          \cup (IF NeedsStart THEN {"closed"} ELSE {})
         ELSE /\ wpc' = "closed"
              /\ UNCHANGED <<remote, project_files>>
    /\ UNCHANGED <<registered, sbx, history, server_running, preview_url>>
    /\ RestForget
    /\ llm_calls' = 0
    /\ UNCHANGED <<parseVars, runVars, lifeVars, llm_request, pairVars, moreVars>>

\* ... server_running = True after the sleep, get_preview_url, the preview event.
WsUpdateFinish ==
    /\ wpc \in {"update_settle", "update_preview"}
    /\ server_running' = (IF wpc = "update_settle" THEN TRUE ELSE server_running)
    /\ \/ /\ sbx = "ready"
          /\ preview_url' = PreviewLink
          /\ events' = Append(events, PreviewEvent)
          /\ wpc' = "idle"
       \/ /\ sbx # "ready"
          /\ wpc' = "idle"
          /\ UNCHANGED <<preview_url, events>>
       \/ /\ sbx = "ready"
          /\ wpc' = "closed"
          /\ UNCHANGED <<preview_url, events>>
    /\ UNCHANGED <<wprompt, chunks, full_response, wfiles, wnext, wstatus, wraised, wpreview, wappended>>
    /\ UNCHANGED <<registered, sbx, remote, project_files, history, turns>>
    /\ UNCHANGED <<restVars, parseVars, runVars, lifeVars, turnVars, pairVars, moreVars>>

Next ==
    \/ CreateSession
    \/ ChatBatchRaise \/ ChatBatch \/ RestUpdate \/ RestStart \/ RestFinish
    \/ WsConnect \/ WsChat \/ WsChunk \/ WsStreamRaise \/ WsStreamEnd \/ WsUpload
    \/ WsAppendDeploy \/ WsPreview \/ WsComplete \/ WsUpdateCode \/ WsUpdateFinish

(***************************************************************************)
(* The life of a sandbox: create_session, the operations that use the       *)
(* agent's sandbox, destroy_session and CodeAgent.cleanup                   *)
(***************************************************************************)
\* Operations on the agent in one behaviour.
MaxOps == 2
\* Remote sandboxes the Daytona account lets one behaviour create.
MaxSandboxes == 2
\* Direct calls of CodeAgent.cleanup in one behaviour.
MaxCleanups == 1

\* SandboxManager objects one behaviour can make: one by create_session or by
\* each operation.
ManagerIds == 1..(MaxOps + 1)
Handles == 1..MaxSandboxes

\* Who runs CodeAgent.cleanup: the worker thread of destroy_session, and a
\* caller that holds the agent and calls cleanup (or leaves `with agent:`).
Cleaners == {"destroy", "owner"}

OpKinds == {"chat", "update", "preview", "proxy", "execute"}
LifeNames == {NameIndexHtml, NameAppJs}
LifeContents == {<<"e">>, <<"f">>}

\* No operation: the record of the operation in hand before the first one.
NoOp ==
    [kind |-> "none", name |-> <<>>, content |-> <<>>, status |-> "none",
     deployed |-> FALSE, nosbx |-> FALSE, sb0 |-> 0, run0 |-> FALSE, prev0 |-> 0,
     after |-> FALSE, cmds |-> 0, preview |-> 0, target |-> 0, cur |-> 0]

LifeInit ==
    /\ agent_sandbox = 0
    /\ mgr_sandbox = [m \in ManagerIds |-> 0]
    /\ managers = 0
    /\ sandboxes = 0
    /\ deletes = [h \in Handles |-> 0]
    /\ links = [h \in Handles |-> 0]
    /\ stored_preview = 0
    /\ cpc = [c \in Cleaners |-> "off"]
    /\ cref = [c \in Cleaners |-> 0]
    /\ cleanups = 0
    /\ cleaned = FALSE
    /\ dstate = "none"
    /\ dresult = "none"
    /\ draised = FALSE
    /\ dmanagers = 0
    /\ rsandboxes = 0
    /\ lpc = "idle"
    /\ op = NoOp
    /\ ops = 0
    /\ used = {}
    /\ create_failed = FALSE
    /\ started = FALSE
    /\ written_order = <<>>
    /\ served = {}

\* No sandbox is followed: the state the other specifications keep.
LifeQuiet == LifeInit

\* self.agent.sandbox and self.agent.sandbox.sandbox
HasSandbox == agent_sandbox # 0 /\ mgr_sandbox[agent_sandbox] # 0
\* The remote sandbox the agent's SandboxManager holds, 0 for None.
CurrentHandle == IF agent_sandbox = 0 THEN 0 ELSE mgr_sandbox[agent_sandbox]

\* create_sandbox called on every use of the sandbox
NeedsCreate_Always(m) == TRUE

\* execute_code, execute_command, upload_file: if not self.sandbox: self.create_sandbox()
NeedsCreate(m) == mgr_sandbox[m] = 0

\* A method of SandboxManager m that needs the remote sandbox gets it: the one m
\* holds, or one create_sandbox makes now.
Acquired(m) ==
    /\ NeedsCreate(m) => sandboxes < MaxSandboxes
    /\ mgr_sandbox' = (IF NeedsCreate(m) THEN [mgr_sandbox EXCEPT ![m] = sandboxes + 1]
                       ELSE mgr_sandbox)
    /\ sandboxes' = (IF NeedsCreate(m) THEN sandboxes + 1 ELSE sandboxes)
    /\ used' = used \cup {IF NeedsCreate(m) THEN sandboxes + 1 ELSE mgr_sandbox[m]}
    /\ create_failed' = create_failed

\* ... or create_sandbox raises (daytona.create fails).
CreateRaises(m) ==
    /\ NeedsCreate(m)
    /\ create_failed' = TRUE
    /\ UNCHANGED <<mgr_sandbox, sandboxes, used>>

\* The operation in hand ends with an exception.
OpFails ==
    /\ lpc' = "idle"
    /\ op' = [op EXCEPT !.status = "failed"]

\* What the life of the sandbox leaves alone.
lifeRest == <<sbx, remote, history, preview_url, turns, restVars, wsVars, parseVars, runVars,
              turnVars, pairVars, moreVars>>
cleanerVars == <<cpc, cref, cleanups, cleaned, dstate, dresult, draised, dmanagers, rsandboxes>>

\* SessionManager.create_session: the agent is constructed, _ensure_sandbox makes
\* its SandboxManager and the remote sandbox and the workspace, and the session
\* is registered.  When create_sandbox raises there the agent is dropped with
\* the exception and there is no session: the state stays as it was.
ManagerCreateSession ==
    /\ ~registered /\ dstate = "none" /\ managers = 0 /\ ops = 0 /\ cleanups = 0
    /\ managers' = 1
    /\ agent_sandbox' = 1
    /\ mgr_sandbox' = [mgr_sandbox EXCEPT ![1] = 1]
    /\ sandboxes' = 1
    /\ used' = {1}
    /\ registered' = TRUE
    /\ UNCHANGED <<deletes, links, stored_preview, lpc, op, ops, started, written_order, served,
                   create_failed>>
    /\ UNCHANGED <<cleanerVars, project_files, server_running, lifeRest>>

\* A request or a call reaches the agent: a chat turn (generate_web_code or
\* stream_generate), an edit (update_file), GET /preview, the proxy route, or
\* CodeAgent.execute.  The routes need the session in the registry; a WebSocket
\* opened before keeps its session object, and a caller its agent.
OpStart ==
    /\ lpc = "idle" /\ ops < MaxOps
    /\ ops' = ops + 1
    /\ \E k \in OpKinds, n \in LifeNames, c \in LifeContents :
          /\ k \in {"preview", "proxy"} => registered
          /\ k # "update" => (n = NameIndexHtml /\ c = <<"e">>)
          /\ op' = [NoOp EXCEPT !.kind = k, !.name = n, !.content = c, !.status = "running",
                                !.deployed = (k = "preview"),
                                !.nosbx = ~HasSandbox, !.sb0 = sandboxes,
                                !.run0 = server_running, !.prev0 = stored_preview,
                                !.after = started]
          /\ lpc' = CASE k = "chat" -> "ensure"
                      [] k = "execute" -> "ensure"
                      [] k = "update" -> "write"
                      [] k = "preview" -> "geturl"
                      [] OTHER -> "proxy"
    /\ UNCHANGED <<agent_sandbox, mgr_sandbox, managers, sandboxes, deletes, links,
                   stored_preview, used, create_failed, started, written_order, served>>
    /\ UNCHANGED <<cleanerVars, registered, project_files, server_running, lifeRest>>

\* CodeAgent._ensure_sandbox: if self.sandbox is None, a SandboxManager and its
\* create_sandbox
EnsureSandbox ==
    /\ lpc = "ensure"
    /\ IF agent_sandbox = 0
       THEN /\ managers < MaxOps + 1
            /\ managers' = managers + 1
            /\ agent_sandbox' = managers + 1
            /\ \/ /\ sandboxes < MaxSandboxes
                  /\ mgr_sandbox' = [mgr_sandbox EXCEPT ![managers + 1] = sandboxes + 1]
                  /\ sandboxes' = sandboxes + 1
                  /\ used' = used \cup {sandboxes + 1}
                  /\ create_failed' = create_failed
                  /\ lpc' = (IF op.kind = "chat" THEN "setup" ELSE "exec")
                  /\ op' = op
               \/ /\ create_failed' = TRUE
                  /\ UNCHANGED <<mgr_sandbox, sandboxes, used>>
                  /\ OpFails
       ELSE /\ lpc' = (IF op.kind = "chat" THEN "setup" ELSE "exec")
            /\ UNCHANGED <<managers, agent_sandbox, mgr_sandbox, sandboxes, used,
                           create_failed, op>>
    /\ UNCHANGED <<deletes, links, stored_preview, ops, started, written_order, served>>
    /\ UNCHANGED <<cleanerVars, registered, project_files, server_running, lifeRest>>

\* WebCodeAgent._setup_workspace: if self.sandbox: execute_command("mkdir -p ...")
SetupWorkspace ==
    /\ lpc = "setup"
    /\ IF agent_sandbox = 0
       THEN /\ lpc' = "write"
            /\ UNCHANGED <<mgr_sandbox, sandboxes, used, create_failed, op>>
       ELSE \/ Acquired(agent_sandbox) /\ lpc' = "write" /\ op' = op
            \/ CreateRaises(agent_sandbox) /\ OpFails
    /\ UNCHANGED <<agent_sandbox, managers, deletes, links, stored_preview, ops, started,
                   written_order, served>>
    /\ UNCHANGED <<cleanerVars, registered, project_files, server_running, lifeRest>>

\* self.sandbox.upload_file(path, content); self.project_files[filename] = content.
\* update_file returns before both when self.sandbox is None; the loop of a chat
\* turn has no such test and fails on None.
WriteFile ==
    /\ lpc = "write"
    /\ IF agent_sandbox = 0
       THEN /\ IF op.kind = "update"
               THEN lpc' = "deploy" /\ op' = op
               ELSE OpFails
            /\ UNCHANGED <<mgr_sandbox, sandboxes, used, create_failed, project_files,
                           written_order>>
       ELSE \/ /\ Acquired(agent_sandbox)
               /\ project_files' = DictSet(project_files, op.name, op.content)
               /\ written_order' = (IF HasKey(project_files, op.name) THEN written_order
                                    ELSE Append(written_order, op.name))
               /\ lpc' = "deploy"
               /\ op' = op
            \/ /\ CreateRaises(agent_sandbox)
               /\ OpFails
               /\ UNCHANGED <<project_files, written_order>>
    /\ UNCHANGED <<agent_sandbox, managers, deletes, links, stored_preview, ops, started, served>>
    /\ UNCHANGED <<cleanerVars, registered, server_running, lifeRest>>

\* CodeAgent.execute after _ensure_sandbox: self.sandbox.execute_code(code, language)
ExecuteInSandbox ==
    /\ lpc = "exec"
    /\ IF agent_sandbox = 0
       THEN /\ OpFails
            /\ UNCHANGED <<mgr_sandbox, sandboxes, used, create_failed>>
       ELSE \/ /\ Acquired(agent_sandbox)
               /\ lpc' = "idle"
               /\ op' = [op EXCEPT !.status = "ok"]
            \/ CreateRaises(agent_sandbox) /\ OpFails
    /\ UNCHANGED <<agent_sandbox, managers, deletes, links, stored_preview, ops, started,
                   written_order, served>>
    /\ UNCHANGED <<cleanerVars, registered, project_files, server_running, lifeRest>>

\* start_preview_server issuing its commands whatever server_running says
SkipsStart_NoFlag == agent_sandbox = 0

\* start_preview_server: if self.server_running: return; if not self.sandbox: return
SkipsStart == server_running \/ agent_sandbox = 0

\* Session.deploy_and_preview, first half: start_preview_server up to its sleep,
\* the kill and the start command issued through execute_command.
StartPreviewServer ==
    /\ lpc = "deploy"
    /\ IF SkipsStart
       THEN /\ lpc' = "geturl"
            /\ op' = [op EXCEPT !.deployed = TRUE, !.nosbx = ~HasSandbox, !.sb0 = sandboxes,
                                !.run0 = server_running, !.prev0 = stored_preview,
                                !.after = started, !.cmds = 0]
            /\ UNCHANGED <<mgr_sandbox, sandboxes, used, create_failed, served>>
       ELSE \/ /\ Acquired(agent_sandbox)
               /\ served' = served \cup {mgr_sandbox'[agent_sandbox]}
               /\ lpc' = "sleep"
               /\ op' = [op EXCEPT !.deployed = TRUE, !.nosbx = ~HasSandbox,
                                   !.sb0 = sandboxes, !.run0 = server_running,
                                   !.prev0 = stored_preview, !.after = started, !.cmds = 2]
            \/ /\ CreateRaises(agent_sandbox)
               /\ served' = served
               /\ lpc' = "idle"
               /\ op' = [op EXCEPT !.deployed = TRUE, !.nosbx = ~HasSandbox,
                                   !.sb0 = sandboxes, !.run0 = server_running,
                                   !.prev0 = stored_preview, !.after = started,
                                   !.status = "failed"]
    /\ UNCHANGED <<agent_sandbox, managers, deletes, links, stored_preview, ops, started,
                   written_order>>
    /\ UNCHANGED <<cleanerVars, registered, project_files, server_running, lifeRest>>

\* ... await asyncio.sleep(1); self.server_running = True
ServerUp ==
    /\ lpc = "sleep"
    /\ server_running' = TRUE
    /\ started' = (started \/ ~op.nosbx)
    /\ lpc' = "geturl"
    /\ UNCHANGED <<agent_sandbox, mgr_sandbox, managers, sandboxes, deletes, links,
                   stored_preview, op, ops, used, create_failed, written_order, served>>
    /\ UNCHANGED <<cleanerVars, registered, project_files, lifeRest>>

\* Session.get_preview_url: with a created sandbox, get_preview_link(8000) and the
\* url and token stored on the session; None otherwise.
GetPreviewUrl ==
    /\ lpc = "geturl"
    /\ IF HasSandbox
       THEN /\ links' = [links EXCEPT ![CurrentHandle] = @ + 1]
            /\ stored_preview' = CurrentHandle
            /\ used' = used \cup {CurrentHandle}
            /\ op' = [op EXCEPT !.status = "ok", !.preview = CurrentHandle]
       ELSE /\ op' = [op EXCEPT !.status = "ok", !.preview = 0]
            /\ UNCHANGED <<links, stored_preview, used>>
    /\ lpc' = "idle"
    /\ UNCHANGED <<agent_sandbox, mgr_sandbox, managers, sandboxes, deletes, ops,
                   create_failed, started, written_order, served>>
    /\ UNCHANGED <<cleanerVars, registered, project_files, server_running, lifeRest>>

\* proxy_preview: get_preview_url only when no url or token is stored; the request
\* goes to the stored url with the stored token.
ProxyPreview ==
    /\ lpc = "proxy"
    /\ IF stored_preview # 0
       THEN /\ op' = [op EXCEPT !.status = "ok", !.target = stored_preview,
                                !.cur = CurrentHandle]
            /\ UNCHANGED <<links, stored_preview, used>>
       ELSE IF HasSandbox
       THEN /\ links' = [links EXCEPT ![CurrentHandle] = @ + 1]
            /\ stored_preview' = CurrentHandle
            /\ used' = used \cup {CurrentHandle}
            /\ op' = [op EXCEPT !.status = "ok", !.target = CurrentHandle,
                                !.cur = CurrentHandle]
       ELSE /\ op' = [op EXCEPT !.status = "failed"]
            /\ UNCHANGED <<links, stored_preview, used>>
    /\ lpc' = "idle"
    /\ UNCHANGED <<agent_sandbox, mgr_sandbox, managers, sandboxes, deletes, ops,
                   create_failed, started, written_order, served>>
    /\ UNCHANGED <<cleanerVars, registered, project_files, server_running, lifeRest>>

opVars == <<lpc, op, ops, used, create_failed, started, written_order, served, links, stored_preview,
           managers, sandboxes>>

\* SessionManager.destroy_session, also as cleanup_inactive and cleanup_all call
\* it: the session is popped from the registry and agent.cleanup is handed to a
\* worker thread.  A session that is not in the registry is not destroyed again.
DestroySession ==
    /\ registered
    /\ registered' = FALSE
    /\ dstate' = "running"
    /\ dmanagers' = managers
    /\ cpc' = [cpc EXCEPT !["destroy"] = "check"]
    /\ UNCHANGED <<cref, cleanups, cleaned, dresult, draised, rsandboxes>>
    /\ UNCHANGED <<agent_sandbox, mgr_sandbox, deletes, opVars>>
    /\ UNCHANGED <<project_files, server_running, lifeRest>>

\* CodeAgent.cleanup called by who holds the agent.
CleanupCall ==
    /\ cpc["owner"] \in {"off", "done"}
    /\ cleanups < MaxCleanups
    /\ managers > 0
    /\ cleanups' = cleanups + 1
    /\ cpc' = [cpc EXCEPT !["owner"] = "check"]
    /\ UNCHANGED <<cref, cleaned, dstate, dresult, draised, dmanagers, rsandboxes>>
    /\ UNCHANGED <<agent_sandbox, mgr_sandbox, deletes, opVars>>
    /\ UNCHANGED <<registered, project_files, server_running, lifeRest>>

\* the exception of daytona.delete leaving destroy
DestroyPropagates_Raise(o) == o = "raise"

\* SandboxManager.destroy: try: self.daytona.delete(self.sandbox) except Exception: pass
DestroyPropagates(o) == FALSE

\* CodeAgent.cleanup up to the remote delete: if self.sandbox: self.sandbox.destroy(),
\* and in destroy: if self.sandbox: self.daytona.delete(self.sandbox), which
\* returns or raises.
CleanupDelete ==
    \E c \in Cleaners :
       /\ cpc[c] = "check"
       /\ cleaned' = TRUE
       /\ IF agent_sandbox = 0
          THEN /\ cpc' = [cpc EXCEPT ![c] = "done"]
               /\ UNCHANGED <<cref, deletes, draised, dresult>>
          ELSE /\ cref' = [cref EXCEPT ![c] = agent_sandbox]
               /\ IF mgr_sandbox[agent_sandbox] = 0
                  THEN /\ cpc' = [cpc EXCEPT ![c] = "clear_agent"]
                       /\ UNCHANGED <<deletes, draised, dresult>>
                  ELSE /\ deletes' = [deletes EXCEPT ![mgr_sandbox[agent_sandbox]] = @ + 1]
                       /\ \E o \in {"ok", "raise"} :
                             /\ draised' = (draised \/ (c = "destroy" /\ o = "raise"))
                             /\ cpc' = [cpc EXCEPT ![c] = IF DestroyPropagates(o) THEN "raised"
                                                          ELSE "clear_mgr"]
                             /\ dresult' = (IF DestroyPropagates(o) /\ c = "destroy"
                                            THEN "raised" ELSE dresult)
       /\ UNCHANGED <<cleanups, dstate, dmanagers, rsandboxes>>
       /\ UNCHANGED <<agent_sandbox, mgr_sandbox, opVars>>
       /\ UNCHANGED <<registered, project_files, server_running, lifeRest>>

\* ... in destroy, after the delete: self.sandbox = None; self.sandbox_id = None
ClearManager ==
    \E c \in Cleaners :
       /\ cpc[c] = "clear_mgr"
       /\ mgr_sandbox' = [mgr_sandbox EXCEPT ![cref[c]] = 0]
       /\ cpc' = [cpc EXCEPT ![c] = "clear_agent"]
       /\ UNCHANGED <<cref, cleanups, cleaned, dstate, dresult, draised, dmanagers, rsandboxes>>
       /\ UNCHANGED <<agent_sandbox, deletes, opVars>>
       /\ UNCHANGED <<registered, project_files, server_running, lifeRest>>

\* ... in cleanup, after destroy: self.sandbox = None
ClearAgent ==
    \E c \in Cleaners :
       /\ cpc[c] = "clear_agent"
       /\ agent_sandbox' = 0
       /\ cpc' = [cpc EXCEPT ![c] = "done"]
       /\ UNCHANGED <<cref, cleanups, cleaned, dstate, dresult, draised, dmanagers, rsandboxes>>
       /\ UNCHANGED <<mgr_sandbox, deletes, opVars>>
       /\ UNCHANGED <<registered, project_files, server_running, lifeRest>>

\* destroy_session after its worker thread has ended: return True
DestroyReturn ==
    /\ dstate = "running"
    /\ cpc["destroy"] = "done"
    /\ dstate' = "returned"
    /\ dresult' = "true"
    /\ rsandboxes' = sandboxes
    /\ UNCHANGED <<cpc, cref, cleanups, cleaned, draised, dmanagers>>
    /\ UNCHANGED <<agent_sandbox, mgr_sandbox, deletes, opVars>>
    /\ UNCHANGED <<registered, project_files, server_running, lifeRest>>

LifeNext ==
    \/ ManagerCreateSession \/ OpStart \/ EnsureSandbox \/ SetupWorkspace \/ WriteFile
    \/ ExecuteInSandbox \/ StartPreviewServer \/ ServerUp \/ GetPreviewUrl \/ ProxyPreview
    \/ DestroySession \/ CleanupCall \/ CleanupDelete \/ ClearManager \/ ClearAgent
    \/ DestroyReturn

(***************************************************************************)
(* The history and the messages of a web turn                               *)
(***************************************************************************)
\* Entries of agent.history in one behaviour.
MaxHistory == 4

\* What a history entry of a web turn is made of here.
HistoryFiles == {Keys(ParseWebFiles(Concat(r))) : r \in BatchResponses}
\* CodeAgent.generate and CodeAgent.execute append entries of their own.
GenerateEntry(prompt) == [action |-> "generate", prompt |-> prompt, files |-> <<>>]
ExecuteEntry == [action |-> "execute", prompt |-> "", files |-> <<>>]

histRest == <<registered, sbx, remote, project_files, server_running, preview_url, turns,
              restVars, wsVars, parseVars, runVars, lifeVars, pairVars, moreVars>>

\* A web turn, batch or streaming, that completes: the messages are built from
\* the history, the LLM is called, and the entry of the turn is appended.
HistWebTurn ==
    /\ Len(history) < MaxHistory
    /\ \E prompt \in Prompts, files \in HistoryFiles, intro \in {BatchIntro, StreamIntro} :
          /\ llm_request' = Request(history, prompt, intro)
          /\ history' = Append(history, [action |-> "generate_web", prompt |-> prompt,
                                         files |-> files])
    /\ llm_calls' = 1
    /\ UNCHANGED histRest

\* A web turn that fails at the LLM call or after it: nothing is appended.
HistWebTurnFails ==
    /\ \E prompt \in Prompts, intro \in {BatchIntro, StreamIntro} :
          llm_request' = Request(history, prompt, intro)
    /\ llm_calls' = 1
    /\ UNCHANGED <<history, histRest>>

\* CodeAgent.generate, which WebCodeAgent inherits
HistGenerate ==
    /\ Len(history) < MaxHistory
    /\ \E prompt \in Prompts : history' = Append(history, GenerateEntry(prompt))
    /\ UNCHANGED <<llm_calls, llm_request, histRest>>

\* CodeAgent.execute
HistExecute ==
    /\ Len(history) < MaxHistory
    /\ history' = Append(history, ExecuteEntry)
    /\ UNCHANGED <<llm_calls, llm_request, histRest>>

HistNext == HistWebTurn \/ HistWebTurnFails \/ HistGenerate \/ HistExecute

(***************************************************************************)
(* Two sessions of one SessionManager, each with its agent                  *)
(***************************************************************************)
Sessions == {"A", "B"}
\* Operations begun on one session in one behaviour.
MaxPairOps == 2
\* Remote sandboxes the Daytona account lets one behaviour create.
MaxPairSandboxes == 3

PairNames == {NameIndexHtml, NameAppJs}
PairContent == <<"e">>
PairPrompt == "make a page"

\* one project_files dict for every agent (an attribute of the class)
FilesObject_Shared(s) == "A"
\* WebCodeAgent.__init__: self.project_files = {}, a dict of the agent's own
FilesObject(s) == s
\* CodeAgent.__init__: self.history = [], a list of the agent's own
HistoryObject(s) == s

\* What a session and its agent hold.
FilesOf(s) == p_files[FilesObject(s)]
HistoryOf(s) == p_history[HistoryObject(s)]
SessionState(s) == <<FilesOf(s), HistoryOf(s), p_sandbox[s], p_running[s], p_preview[s]>>

PairInit ==
    /\ p_sessions = {}
    /\ p_files = [o \in Sessions |-> EmptyDict]
    /\ p_history = [o \in Sessions |-> <<>>]
    /\ p_sandbox = [s \in Sessions |-> 0]
    /\ p_running = [s \in Sessions |-> FALSE]
    /\ p_preview = [s \in Sessions |-> 0]
    /\ p_created = 0
    /\ p_pc = [s \in Sessions |-> "new"]
    /\ p_ops = [s \in Sessions |-> 0]
    /\ p_acting = "none"

\* No pair of sessions is followed: the state the other specifications keep.
PairQuiet == PairInit

pairRest == <<parseVars, runVars, sessVars, lifeVars, turnVars, moreVars>>

\* SessionManager.create_session: WebCodeAgent(...), _ensure_sandbox in a worker
\* thread, Session(...), and the session is registered.
PairCreateSession ==
    \E s \in Sessions :
       /\ p_pc[s] = "new"
       /\ p_created < MaxPairSandboxes
       /\ p_files' = [p_files EXCEPT ![FilesObject(s)] = EmptyDict]
       /\ p_history' = [p_history EXCEPT ![HistoryObject(s)] = <<>>]
       /\ p_running' = [p_running EXCEPT ![s] = FALSE]
       /\ p_preview' = [p_preview EXCEPT ![s] = 0]
       /\ p_created' = p_created + 1
       /\ p_sandbox' = [p_sandbox EXCEPT ![s] = p_created + 1]
       /\ p_sessions' = p_sessions \cup {s}
       /\ p_pc' = [p_pc EXCEPT ![s] = "idle"]
       /\ p_acting' = s
       /\ UNCHANGED <<p_ops, pairRest>>

\* A chat turn up to its uploads: the LLM has answered, and _ensure_sandbox makes
\* a sandbox when the agent holds none.
PairChat ==
    \E s \in Sessions :
       /\ p_pc[s] = "idle" /\ p_ops[s] < MaxPairOps
       /\ p_sandbox[s] = 0 => p_created < MaxPairSandboxes
       /\ p_ops' = [p_ops EXCEPT ![s] = @ + 1]
       /\ p_created' = (IF p_sandbox[s] = 0 THEN p_created + 1 ELSE p_created)
       /\ p_sandbox' = (IF p_sandbox[s] = 0 THEN [p_sandbox EXCEPT ![s] = p_created + 1]
                        ELSE p_sandbox)
       /\ p_pc' = [p_pc EXCEPT ![s] = "upload"]
       /\ p_acting' = s
       /\ UNCHANGED <<p_sessions, p_files, p_history, p_running, p_preview, pairRest>>

\* ... upload_file and self.project_files[filename] = content
PairUpload ==
    \E s \in Sessions, name \in PairNames :
       /\ p_pc[s] = "upload"
       /\ p_files' = [p_files EXCEPT ![FilesObject(s)] = DictSet(@, name, PairContent)]
       /\ p_pc' = [p_pc EXCEPT ![s] = "append"]
       /\ p_acting' = s
       /\ UNCHANGED <<p_sessions, p_history, p_sandbox, p_running, p_preview, p_created,
                      p_ops, pairRest>>

\* ... self.history.append(...)
PairAppend ==
    \E s \in Sessions :
       /\ p_pc[s] = "append"
       /\ p_history' = [p_history EXCEPT ![HistoryObject(s)] =
                           Append(@, [action |-> "generate_web", prompt |-> PairPrompt,
                                      files |-> Keys(FilesOf(s))])]
       /\ p_pc' = [p_pc EXCEPT ![s] = "deploy"]
       /\ p_acting' = s
       /\ UNCHANGED <<p_sessions, p_files, p_sandbox, p_running, p_preview, p_created,
                      p_ops, pairRest>>

\* A file edit: Session.update_file, which stores nothing without a sandbox.
PairEdit ==
    \E s \in Sessions, name \in PairNames :
       /\ p_pc[s] = "idle" /\ p_ops[s] < MaxPairOps
       /\ p_ops' = [p_ops EXCEPT ![s] = @ + 1]
       /\ p_files' = (IF p_sandbox[s] = 0 THEN p_files
                      ELSE [p_files EXCEPT ![FilesObject(s)] = DictSet(@, name, PairContent)])
       /\ p_pc' = [p_pc EXCEPT ![s] = "deploy"]
       /\ p_acting' = s
       /\ UNCHANGED <<p_sessions, p_history, p_sandbox, p_running, p_preview, p_created,
                      pairRest>>

\* Session.deploy_and_preview, first half: start_preview_server
PairDeploy ==
    \E s \in Sessions :
       /\ p_pc[s] = "deploy"
       /\ p_running' = (IF p_running[s] \/ p_sandbox[s] = 0 THEN p_running
                        ELSE [p_running EXCEPT ![s] = TRUE])
       /\ p_pc' = [p_pc EXCEPT ![s] = "preview"]
       /\ p_acting' = s
       /\ UNCHANGED <<p_sessions, p_files, p_history, p_sandbox, p_preview, p_created,
                      p_ops, pairRest>>

\* GET /preview/{session_id}: the preview is resolved on its own
PairGetPreview ==
    \E s \in p_sessions :
       /\ p_pc[s] = "idle" /\ p_ops[s] < MaxPairOps
       /\ p_ops' = [p_ops EXCEPT ![s] = @ + 1]
       /\ p_pc' = [p_pc EXCEPT ![s] = "preview"]
       /\ p_acting' = s
       /\ UNCHANGED <<p_sessions, p_files, p_history, p_sandbox, p_running, p_preview,
                      p_created, pairRest>>

\* Session.get_preview_url
PairPreview ==
    \E s \in Sessions :
       /\ p_pc[s] = "preview"
       /\ p_preview' = (IF p_sandbox[s] = 0 THEN p_preview
                        ELSE [p_preview EXCEPT ![s] = p_sandbox[s]])
       /\ p_pc' = [p_pc EXCEPT ![s] = "idle"]
       /\ p_acting' = s
       /\ UNCHANGED <<p_sessions, p_files, p_history, p_sandbox, p_running, p_created,
                      p_ops, pairRest>>

\* SessionManager.destroy_session: the session is popped and its agent cleaned
\* up, whatever operation of the session is under way.
PairDestroy ==
    \E s \in p_sessions :
       /\ p_sessions' = p_sessions \ {s}
       /\ p_sandbox' = [p_sandbox EXCEPT ![s] = 0]
       /\ p_acting' = s
       /\ UNCHANGED <<p_files, p_history, p_running, p_preview, p_created, p_pc, p_ops,
                      pairRest>>

PairNext ==
    \/ PairCreateSession \/ PairChat \/ PairUpload \/ PairAppend \/ PairEdit
    \/ PairDeploy \/ PairGetPreview \/ PairPreview \/ PairDestroy

(***************************************************************************)
(* Handlers of one session side by side.  Every handler is a coroutine of   *)
(* the one event loop: another handler runs only where one awaits           *)
(* something that suspends it (a send on the WebSocket, asyncio.sleep).     *)
(***************************************************************************)
Tasks == {1, 2}
\* Handlers begun in one behaviour.
MaxRaceOps == 3

RaceContents == {<<"e">>, <<"f">>}
\* The full responses of the streaming turns, in pieces.
RaceResponses == { <<1>>, <<1, 6>> }
RacePrompt == "make a page"

RaceInit ==
    /\ task_pc = [t \in Tasks |-> "idle"]
    /\ task_kind = [t \in Tasks |-> "none"]
    /\ task_files = [t \in Tasks |-> EmptyDict]
    /\ task_next = [t \in Tasks |-> 0]
    /\ race_ops = 0
    /\ start_commands = 0
    /\ uploaded = EmptyDict

\* No handlers are followed side by side: the state the other specifications keep.
RaceQuiet == RaceInit

raceRest == <<registered, sbx, turns, restVars, wsVars, parseVars, runVars, lifeVars, turnVars,
              pairVars, closeVars, idleVars>>

\* the assignment left out when the name is in the store already
Stored_IfNew(store, name, content) ==
    IF HasKey(store, name) THEN store ELSE DictSet(store, name, content)

\* self.project_files[filename] = content
Stored(store, name, content) == DictSet(store, name, content)

\* self.sandbox.upload_file(path, content) that returned, and the assignment
\* that follows it with nothing awaited in between.
RaceWritten(name, content, o) ==
    /\ remote' = Uploaded(remote, name, content, o)
    /\ uploaded' = DictSet(uploaded, name, content)
    /\ project_files' = Stored(project_files, name, content)

\* deploy_and_preview up to where it suspends or ends: start_preview_server
\* issues the kill and the start command and sleeps, or returns at once and
\* get_preview_url stores the link.
RaceDeploy(t) ==
    IF NeedsStart
    THEN /\ start_commands' = start_commands + 1
         /\ task_pc' = [task_pc EXCEPT ![t] = "settle"]
         /\ preview_url' = preview_url
    ELSE /\ start_commands' = start_commands
         /\ task_pc' = [task_pc EXCEPT ![t] = "idle"]
         /\ preview_url' = PreviewLink

\* A chat message on a WebSocket of the session: stream_generate sends the
\* tokens of the response, or the LLM call raises and the turn ends.
RaceStream ==
    \E t \in Tasks :
       /\ registered /\ task_pc[t] = "idle" /\ race_ops < MaxRaceOps
       /\ race_ops' = race_ops + 1
       /\ task_kind' = [task_kind EXCEPT ![t] = "stream"]
       /\ \/ \E r \in RaceResponses :
                /\ task_files' = [task_files EXCEPT ![t] = ParseWebFiles(Concat(r))]
                /\ task_next' = [task_next EXCEPT ![t] = 1]
                /\ task_pc' = [task_pc EXCEPT ![t] = "write"]
          \/ /\ task_files' = [task_files EXCEPT ![t] = EmptyDict]
             /\ task_next' = [task_next EXCEPT ![t] = 0]
             /\ task_pc' = task_pc
       /\ UNCHANGED <<start_commands, uploaded, remote, project_files, history, server_running,
                      preview_url, raceRest>>

\* The next file of the turn: upload_file, the assignment, the code event; an
\* upload that raises ends the turn.
RaceUpload ==
    \E t \in Tasks :
       /\ task_pc[t] = "write" /\ task_next[t] <= Len(task_files[t])
       /\ \E o \in UploadOutcomes :
            IF UploadReturns(o)
            THEN /\ RaceWritten(task_files[t][task_next[t]].name,
                                task_files[t][task_next[t]].content, o)
                 /\ task_next' = [task_next EXCEPT ![t] = @ + 1]
                 /\ task_pc' = task_pc
            ELSE /\ task_pc' = [task_pc EXCEPT ![t] = "idle"]
                 /\ UNCHANGED <<remote, uploaded, project_files, task_next>>
       /\ UNCHANGED <<task_kind, task_files, race_ops, start_commands, history, server_running,
                      preview_url, raceRest>>

\* After the last code event: the history entry, and deploy_and_preview.
RaceAppendDeploy ==
    \E t \in Tasks :
       /\ task_pc[t] = "write" /\ task_next[t] > Len(task_files[t])
       /\ history' = Append(history, HistoryEntry(RacePrompt, task_files[t]))
       /\ RaceDeploy(t)
       /\ UNCHANGED <<task_kind, task_files, task_next, race_ops, uploaded, remote,
                      project_files, server_running, raceRest>>

\* PUT /files/{session_id}/{path}: session.update_file, then deploy_and_preview;
\* an upload that raises ends the request.
RaceUpdate ==
    \E t \in Tasks :
       /\ registered /\ task_pc[t] = "idle" /\ race_ops < MaxRaceOps
       /\ race_ops' = race_ops + 1
       /\ task_kind' = [task_kind EXCEPT ![t] = "update"]
       /\ \E name \in EditNames, content \in RaceContents, o \in UploadOutcomes :
            /\ task_files' = [task_files EXCEPT ![t] = DictSet(EmptyDict, name, content)]
            /\ IF UploadReturns(o)
               THEN /\ RaceWritten(name, content, o)
                    /\ task_next' = [task_next EXCEPT ![t] = 2]
                    /\ RaceDeploy(t)
               ELSE /\ task_next' = [task_next EXCEPT ![t] = 1]
                    /\ UNCHANGED <<remote, uploaded, project_files, start_commands, task_pc,
                                   preview_url>>
       /\ UNCHANGED <<history, server_running, raceRest>>

\* ... after asyncio.sleep(1): self.server_running = True, and get_preview_url
RaceSettled ==
    \E t \in Tasks :
       /\ task_pc[t] = "settle"
       /\ server_running' = TRUE
       /\ preview_url' = PreviewLink
       /\ task_pc' = [task_pc EXCEPT ![t] = "idle"]
       /\ UNCHANGED <<task_kind, task_files, task_next, race_ops, start_commands, uploaded,
                      remote, project_files, history, raceRest>>

RaceNext ==
    \/ CreateSession \/ RaceStream \/ RaceUpload \/ RaceAppendDeploy \/ RaceUpdate
    \/ RaceSettled

(***************************************************************************)
(* The client closes the connection in the middle of a streaming turn.      *)
(* The handler learns of it at its next send, which raises; the exception   *)
(* reaches the handler of the chat branch, whose own send of the error      *)
(* event raises again, and the endpoint ends (websocket.py:99-105, 137-141).*)
(***************************************************************************)
\* No client has left.
NoClose == [turn |-> 0, store |-> EmptyDict, remote |-> EmptyDict, history |-> <<>>,
            events |-> <<>>]

CloseInit == at_close = NoClose

\* No close is followed: the state the other specifications keep.
CloseQuiet == CloseInit

\* Where a streaming turn is between its first token and its complete event.
TurnPlaces == {"streaming", "uploading", "settle", "preview", "completing"}
\* The same places once the client has gone.
ClientGone(pc) ==
    CASE pc = "streaming" -> "streaming, client gone"
      [] pc = "uploading" -> "uploading, client gone"
      [] pc = "settle" -> "settle, client gone"
      [] pc = "preview" -> "preview, client gone"
      [] OTHER -> "completing, client gone"

closeRest == <<registered, sbx, turns, restVars, parseVars, runVars, lifeVars, turnVars, pairVars,
               raceVars, idleVars>>

\* The client closes the connection while the turn is under way.
ClientClose ==
    /\ wpc \in TurnPlaces /\ at_close = NoClose
    /\ wpc' = ClientGone(wpc)
    /\ at_close' = [turn |-> turns, store |-> project_files, remote |-> remote,
                    history |-> history, events |-> events]
    /\ UNCHANGED <<wprompt, chunks, full_response, wfiles, wnext, events, wstatus, wraised,
                   wpreview, wappended>>
    /\ UNCHANGED <<remote, project_files, history, server_running, preview_url, closeRest>>

\* websocket.send_json raises on the closed connection, in the loop and again in
\* the except branch: the endpoint ends with ws_manager.disconnect.
SendRaises ==
    /\ wpc' = "closed"
    /\ wstatus' = "failed"
    /\ wraised' = "disconnected"
    /\ events' = events

\* The next chunk of the stream: one without text is not yielded; one with text
\* is accumulated and yielded, and its token event cannot be sent.
GoneChunk ==
    /\ wpc = "streaming, client gone" /\ Len(chunks) < MaxChunks
    /\ \E c \in StreamChunks :
          /\ chunks' = Append(chunks, c)
          /\ IF Yielded(c)
             THEN /\ full_response' = Accumulate(full_response, c)
                  /\ SendRaises
             ELSE UNCHANGED <<wpc, wstatus, wraised, events, full_response>>
    /\ UNCHANGED <<wprompt, wfiles, wnext, wpreview, wappended, at_close>>
    /\ UNCHANGED <<remote, project_files, history, server_running, preview_url, closeRest>>

\* The stream ends: _parse_web_files and _ensure_sandbox send nothing.  When the
\* stream or the workspace command raises, the error event cannot be sent.
GoneStreamEnd ==
    /\ wpc = "streaming, client gone"
    /\ wfiles' = ParseWebFiles(full_response)
    /\ wnext' = 1
    /\ \/ /\ wpc' = "uploading, client gone"
          /\ UNCHANGED <<events, wstatus, wraised>>
       \/ SendRaises
    /\ UNCHANGED <<wprompt, chunks, full_response, wpreview, wappended, at_close>>
    /\ UNCHANGED <<remote, project_files, history, server_running, preview_url, closeRest>>

\* The next file: upload_file and the assignment come before the yield of the
\* code event, which cannot be sent.
GoneUpload ==
    /\ wpc = "uploading, client gone" /\ wnext <= Len(wfiles)
    /\ \E o \in UploadOutcomes :
         IF UploadReturns(o)
         THEN /\ remote' = Uploaded(remote, wfiles[wnext].name, wfiles[wnext].content, o)
              /\ project_files' = DictSet(project_files, wfiles[wnext].name, wfiles[wnext].content)
              /\ wnext' = wnext + 1
         ELSE UNCHANGED <<remote, project_files, wnext>>
    /\ SendRaises
    /\ UNCHANGED <<wprompt, chunks, full_response, wfiles, wpreview, wappended, at_close>>
    /\ UNCHANGED <<history, server_running, preview_url, closeRest>>

\* The client left after the last code event: the generator appends the history
\* entry and ends, and start_preview_server goes up to its sleep.
GoneAppendDeploy ==
    /\ wpc = "uploading, client gone" /\ wnext > Len(wfiles)
    /\ history' = Append(history, HistoryEntry(wprompt, wfiles))
    /\ wappended' = wappended + 1
    /\ \/ /\ wpc' = (IF NeedsStart THEN "settle, client gone" ELSE "preview, client gone")
          /\ UNCHANGED <<events, wstatus, wraised>>
       \/ /\ NeedsStart
          /\ SendRaises
    /\ UNCHANGED <<wprompt, chunks, full_response, wfiles, wnext, wpreview, at_close>>
    /\ UNCHANGED <<remote, project_files, server_running, preview_url, closeRest>>

\* server_running = True after the sleep; get_preview_url stores the link or
\* raises; the preview event cannot be sent.
GonePreview ==
    /\ wpc \in {"settle, client gone", "preview, client gone"}
    /\ server_running' = (IF wpc = "settle, client gone" THEN TRUE ELSE server_running)
    /\ preview_url' \in {PreviewLink, preview_url}
    /\ SendRaises
    /\ UNCHANGED <<wprompt, chunks, full_response, wfiles, wnext, wpreview, wappended, at_close>>
    /\ UNCHANGED <<remote, project_files, history, closeRest>>

\* The complete event cannot be sent.
GoneComplete ==
    /\ wpc = "completing, client gone"
    /\ SendRaises
    /\ UNCHANGED <<wprompt, chunks, full_response, wfiles, wnext, wpreview, wappended, at_close>>
    /\ UNCHANGED <<remote, project_files, history, server_running, preview_url, closeRest>>

CloseNext ==
    \/ CreateSession \/ WsConnect \/ WsChat \/ WsChunk \/ WsStreamRaise \/ WsStreamEnd
    \/ WsUpload \/ WsAppendDeploy \/ WsPreview \/ WsComplete
    \/ ClientClose \/ GoneChunk \/ GoneStreamEnd \/ GoneUpload \/ GoneAppendDeploy
    \/ GonePreview \/ GoneComplete

(***************************************************************************)
(* SessionManager.cleanup_inactive next to the requests of the sessions.    *)
(* cleanup_inactive is a coroutine: it is suspended in destroy_session      *)
(* while agent.cleanup runs in its worker thread, and requests are served   *)
(* meanwhile.                                                               *)
(***************************************************************************)
\* The last minute of the clock.
MaxClock == 3
\* max_age_minutes of the calls.
IdleAges == {1, 2}

InRegistry(s) == \E i \in DOMAIN reg : reg[i] = s

IdleInit ==
    /\ now = 0
    /\ reg = <<>>
    /\ last_activity = [s \in Sessions |-> 0]
    /\ idle_pc = "off"
    /\ cutoff = 0
    /\ to_remove = <<>>
    /\ gone = [s \in Sessions |-> "no"]

\* No registry is followed: the state the other specifications keep.
IdleQuiet == IdleInit

idleRest == <<parseVars, runVars, sessVars, lifeVars, turnVars, pairVars, raceVars, closeVars>>

\* A minute passes.
IdleTick ==
    /\ now < MaxClock
    /\ now' = now + 1
    /\ UNCHANGED <<reg, last_activity, idle_pc, cutoff, to_remove, gone, idleRest>>

\* create_session: Session(...) with last_activity = datetime.now(), registered
\* under an id of its own.
IdleCreateSession ==
    \E s \in Sessions :
       /\ ~InRegistry(s) /\ gone[s] = "no"
       /\ reg' = Append(reg, s)
       /\ last_activity' = [last_activity EXCEPT ![s] = now]
       /\ UNCHANGED <<now, idle_pc, cutoff, to_remove, gone, idleRest>>

\* get_session: if session: session.last_activity = datetime.now()
Refreshed(s) == [last_activity EXCEPT ![s] = now]

\* A request for a registered session reaches get_session.
IdleGetSession ==
    \E s \in Sessions :
       /\ InRegistry(s)
       /\ last_activity' = Refreshed(s)
       /\ UNCHANGED <<now, reg, idle_pc, cutoff, to_remove, gone, idleRest>>

\* self.sessions.pop(session_id, None)
Popped(s) == SelectSeq(reg, LAMBDA x : x # s)

\* DELETE /sessions/{session_id}: destroy_session of a registered session
IdleDestroySession ==
    \E s \in Sessions :
       /\ InRegistry(s)
       /\ reg' = Popped(s)
       /\ gone' = [gone EXCEPT ![s] = "destroy_session"]
       /\ UNCHANGED <<now, last_activity, idle_pc, cutoff, to_remove, idleRest>>

\* [sid for sid, session in self.sessions.items() if session.last_activity < cutoff]
Candidates(c) == SelectSeq(reg, LAMBDA s : last_activity[s] < c)

\* for sid in to_remove: await self.destroy_session(sid), from the list that is
\* left up to the first session that is still registered: destroy_session
\* returns False for the others without being suspended.
RECURSIVE StillRegistered(_)
StillRegistered(list) ==
    IF list = <<>> THEN <<>>
    ELSE IF InRegistry(Head(list)) THEN list
    ELSE StillRegistered(Tail(list))

\* The loop of cleanup_inactive up to where it is suspended: the next session
\* of the list that is registered is popped and its cleanup handed to a thread;
\* with none left the call returns.
IdleLoop(list) ==
    LET rest == StillRegistered(list)
    IN  IF rest = <<>>
        THEN /\ idle_pc' = "off"
             /\ to_remove' = <<>>
             /\ UNCHANGED <<reg, gone>>
        ELSE /\ idle_pc' = "cleanup"
             /\ to_remove' = Tail(rest)
             /\ reg' = Popped(Head(rest))
             /\ gone' = [gone EXCEPT ![Head(rest)] = "cleanup_inactive"]

\* cleanup_inactive(max_age_minutes) is called: the cutoff, the list, and the
\* loop up to its first suspension.
IdleCleanupStart ==
    /\ idle_pc = "off"
    /\ \E age \in IdleAges :
          /\ cutoff' = now - age
          /\ IdleLoop(Candidates(now - age))
    /\ UNCHANGED <<now, last_activity, idleRest>>

\* The worker thread of destroy_session has ended: the loop goes on.
IdleCleanupNext ==
    /\ idle_pc = "cleanup"
    /\ IdleLoop(to_remove)
    /\ UNCHANGED <<now, last_activity, cutoff, idleRest>>

IdleNext ==
    \/ IdleTick \/ IdleCreateSession \/ IdleGetSession \/ IdleDestroySession
    \/ IdleCleanupStart \/ IdleCleanupNext

\* None of the three is followed.
MoreQuiet == RaceQuiet /\ CloseQuiet /\ IdleQuiet

(***************************************************************************)
(* Specifications                                                           *)
(***************************************************************************)
\* _parse_web_files applied to every response of the bounded set.
ParseSpecInit == ParseInit /\ RunQuiet /\ SessQuiet /\ LifeQuiet /\ PairQuiet /\ MoreQuiet
ParseNext == Parse
ParseSpec == ParseSpecInit /\ [][ParseNext]_vars

\* One call of CodeAgent.run.  It is one sequential call: a step that can be
\* taken is taken.
RunSpecInit == RunInit /\ ParseQuiet /\ SessQuiet /\ LifeQuiet /\ PairQuiet /\ MoreQuiet
RunSpec == RunSpecInit /\ [][RunNext]_vars /\ WF_vars(RunNext)

\* One session and the requests it serves.
Init == SessInit /\ ParseQuiet /\ RunQuiet /\ LifeQuiet /\ PairQuiet /\ MoreQuiet
Spec == Init /\ [][Next]_vars

\* One agent, the operations that use its sandbox, and the calls that destroy it.
\* cleanup runs in a worker thread of its own, next to the operations.
LifeSpecInit == LifeInit /\ SessInit /\ ParseQuiet /\ RunQuiet /\ PairQuiet /\ MoreQuiet
LifeSpec == LifeSpecInit /\ [][LifeNext]_vars

\* The history of one agent as its turns and calls extend it.
HistSpecInit == SessInit /\ ParseQuiet /\ RunQuiet /\ LifeQuiet /\ PairQuiet /\ MoreQuiet
HistSpec == HistSpecInit /\ [][HistNext]_vars

\* Two sessions; the steps of their operations interleave.
PairSpecInit == PairInit /\ SessQuiet /\ ParseQuiet /\ RunQuiet /\ LifeQuiet /\ MoreQuiet
PairSpec == PairSpecInit /\ [][PairNext]_vars

\* Two handlers of one session; their steps interleave where they are suspended.
RaceSpecInit ==
    SessInit /\ RaceInit /\ ParseQuiet /\ RunQuiet /\ LifeQuiet /\ PairQuiet /\ CloseQuiet
             /\ IdleQuiet
RaceSpec == RaceSpecInit /\ [][RaceNext]_vars

\* The WebSocket of one session, whose client may leave during a turn.
CloseSpecInit ==
    SessInit /\ CloseInit /\ ParseQuiet /\ RunQuiet /\ LifeQuiet /\ PairQuiet /\ RaceQuiet
             /\ IdleQuiet
CloseSpec == CloseSpecInit /\ [][CloseNext]_vars

\* The registry of sessions, the clock, and cleanup_inactive.
IdleSpecInit ==
    IdleInit /\ SessQuiet /\ ParseQuiet /\ RunQuiet /\ LifeQuiet /\ PairQuiet /\ RaceQuiet
             /\ CloseQuiet
IdleSpec == IdleSpecInit /\ [][IdleNext]_vars

(***************************************************************************)
(* Claims about _parse_web_files (ParseSpec)                                *)
(***************************************************************************)
PieceAt(i) == Pieces[segs[i]]

\* C1: for every response the returned mapping has the key "index.html", also
\* when the only fenced block of the response is css- or js-tagged.
C1_AlwaysIndexHtml == ppc = "parsed" => HasKey(parsed, NameIndexHtml)

\* C2: for every response (empty, whitespace only, no fence, an unterminated or
\* unlabelled fence) _parse_web_files returns a mapping with at least one entry.
C2_NeverEmpty == ppc = "parsed" => Len(parsed) >= 1

\* The empty response, and a response that ends in an unterminated fence, parsed.
C2_Witness ==
    /\ ppc = "parsed"
    /\ Len(parsed) = 1
    /\ \/ response = <<>>
       \/ Len(segs) = 2 /\ PieceAt(1).kind = "text" /\ PieceAt(2).kind = "broken"

\* The response is prose and whole fenced blocks only.
WholeBlocks == \A i \in DOMAIN segs : PieceAt(i).kind # "broken"

\* The file names rule 2 assigns, each with the language tags that lead to it.
TaggedKinds ==
    { <<NameIndexHtml, {HtmlTags[1]}>>,
      <<NameStylesCss, {CssTags[1]}>>,
      <<NameScriptJs, {JsTags[1], JsTags[2]}>> }

FileBlocksOf(name) == {i \in DOMAIN segs : PieceAt(i).kind = "file" /\ PieceAt(i).label = name}
TagBlocksOf(tags) == {i \in DOMAIN segs : PieceAt(i).kind = "tag" /\ PieceAt(i).label \in tags}

\* C3: when a response of whole fenced blocks holds a block labelled index.html,
\* styles.css or script.js and a block tagged html, css, js or javascript of the
\* same kind, in either order, the value stored under the file name is the
\* trimmed body of the block labelled with the file name.
C3_FileLabelWins ==
    (ppc = "parsed" /\ WholeBlocks) =>
        \A k \in TaggedKinds :
            (FileBlocksOf(k[1]) # {} /\ TagBlocksOf(k[2]) # {}) =>
                /\ HasKey(parsed, k[1])
                /\ \E i \in FileBlocksOf(k[1]) : Get(parsed, k[1]) = Strip(PieceAt(i).body)

\* A js-tagged block before a block labelled script.js, and one after it, parsed.
C3_Witness ==
    /\ ppc = "parsed"
    /\ WholeBlocks
    /\ \E i, j, l \in DOMAIN segs :
          /\ i < j /\ j < l
          /\ PieceAt(i).kind = "tag" /\ PieceAt(i).label = JsTags[2]
          /\ PieceAt(j).kind = "file" /\ PieceAt(j).label = NameScriptJs
          /\ PieceAt(l).kind = "tag" /\ PieceAt(l).label \in {JsTags[1], JsTags[2]}
          /\ Get(parsed, NameScriptJs) = Strip(PieceAt(j).body)

(***************************************************************************)
(* Claims about CodeAgent.run (RunSpec)                                     *)
(***************************************************************************)
CallsOf(kind) == {i \in DOMAIN run_log : run_log[i].call = kind}
\* run() has returned or has been left by an exception.
Terminated == rpc \in {"done", "raised"}
\* Every execution of the run wrote to stderr.
AlwaysFails == \A i \in CallsOf("execute_code") : run_log[i].stderr # ""

C9_Counts ==
    (rpc = "done" /\ auto_fix /\ AlwaysFails) =>
        /\ Cardinality(CallsOf("analyze_error")) = 3
        /\ Cardinality(CallsOf("execute_code")) = 4
        /\ run_result.retries = 3
        /\ run_result.errors # ""

\* C9: run with auto_fix on, when every execution returns a non-empty stderr,
\* asks analyze_error for exactly 3 corrected versions, executes exactly 4
\* times, and then ends, returning retries = 3 and non-empty errors.
C9_ThreeFixesFourRuns == []C9_Counts /\ <>Terminated

\* A run with auto_fix on that returned after four failing executions.
C9_Witness ==
    /\ rpc = "done" /\ auto_fix /\ AlwaysFails
    /\ Cardinality(CallsOf("execute_code")) = 4
    /\ run_result.retries = 3

C10_Bounded == retries \in 0..3
\* analyze_error is called only directly after an execution with a non-empty stderr.
C10_FixAfterFailure ==
    \A i \in CallsOf("analyze_error") :
        /\ i > 1
        /\ run_log[i - 1].call = "execute_code"
        /\ run_log[i - 1].stderr # ""
\* The last execution of a returned run is the last entry of the log.
C10_OnReturn ==
    (rpc = "done" /\ auto_fix) =>
        /\ run_log[Len(run_log)].call = "execute_code"
        /\ run_result.errors = run_log[Len(run_log)].stderr
        /\ run_result.retries \in 0..3
        /\ run_result.errors = "" \/ run_result.retries = 3

\* C10: whatever the LLM and the sandbox answer, run with auto_fix on ends with
\* 0 <= retries <= 3; a fix is asked for only directly after an execution whose
\* stderr is non-empty; on return the last execution's stderr is empty or
\* retries = 3.
C10_RetryBudget == [](C10_Bounded /\ C10_FixAfterFailure /\ C10_OnReturn) /\ <>Terminated

\* A run with auto_fix on that returned clean after one or two fixes.
C10_Witness ==
    /\ rpc = "done" /\ auto_fix
    /\ run_result.retries \in {1, 2}
    /\ run_result.errors = ""
    /\ Cardinality(CallsOf("analyze_error")) = run_result.retries

\* The last call of a run that returned.
LastCall == run_log[Len(run_log)]

\* C11: the result run returns describes the last execution: code is the code
\* executed last, output, errors and exit_code are those of that execution,
\* retries is the number of analyze_error calls made, and the number of
\* executions is retries + 1.
C11_ResultOfLastExecution ==
    rpc = "done" =>
        /\ LastCall.call = "execute_code"
        /\ run_result.code = LastCall.code
        /\ run_result.output = LastCall.result.stdout
        /\ run_result.errors = LastCall.result.stderr
        /\ run_result.exit_code = LastCall.result.exit_code
        /\ run_result.retries = Cardinality(CallsOf("analyze_error"))
        /\ Cardinality(CallsOf("execute_code")) = run_result.retries + 1

\* A run that returned after two fixes, the last execution being of other code
\* and with another result than the first.
C11_Witness ==
    /\ rpc = "done"
    /\ run_result.retries = 2
    /\ run_log[2].call = "execute_code"
    /\ run_log[2].code # LastCall.code
    /\ run_log[2].result # LastCall.result
    /\ LastCall.result.stdout # ""

(***************************************************************************)
(* Claims about one session (Spec)                                          *)
(***************************************************************************)
\* C4: after any sequence of batch turns, streaming turns and direct edits,
\* failed ones included, project_files holds for every file name the content
\* last written to the sandbox workspace, and the two hold the same names.
C4_StoreEqualsSandbox == Range(project_files) = Range(remote)

IsToken(e) == e.type = "token"
IsError(e) == e.type = "error"
IsComplete(e) == e.type = "complete"
\* The fragments _stream_response yielded, in the order of the stream.
Fragments == SelectSeq(chunks, Yielded)

RECURSIVE Flatten(_)
Flatten(ss) == IF ss = <<>> THEN <<>> ELSE Head(ss) \o Flatten(Tail(ss))

\* C5: when a step of a WebSocket chat turn raises, the turn emits exactly one
\* error event, carrying the exception's message, and no complete event after it;
\* a turn in which nothing raised emits no error event.
C5_SingleError ==
    /\ wstatus = "failed" =>
          /\ wpc = "idle"
          /\ Len(events) >= 1
          /\ events[Len(events)].type = "error"
          /\ events[Len(events)].content = <<wraised>>
          /\ \A i \in 1..(Len(events) - 1) : ~IsError(events[i]) /\ ~IsComplete(events[i])
    /\ wstatus \in {"running", "ok"} => \A i \in DOMAIN events : ~IsError(events[i])

\* A chat turn that failed when the preview was resolved, after its token and
\* code events.
C5_Witness ==
    /\ wstatus = "failed"
    /\ wraised = "preview error"
    /\ Len(Fragments) >= 1
    /\ Len(events) = Len(Fragments) + Len(wfiles) + 1

\* C6: the events of a successful WebSocket chat turn are all its token events,
\* then one code event per resolved file in the order of the resolver's mapping,
\* then a preview event if and only if a preview was resolved, then one complete
\* event, the last; no code event comes before the last token event.
C6_EventOrder ==
    wstatus = "ok" =>
        LET n == Len(Fragments)
            m == Len(wfiles)
            p == IF wpreview THEN 1 ELSE 0
        IN  /\ Len(events) = n + m + p + 1
            /\ \A i \in 1..n : events[i].type = "token"
            /\ \A j \in 1..m :
                  /\ events[n + j].type = "code"
                  /\ events[n + j].content = <<wfiles[j].name, wfiles[j].content>>
            /\ wpreview => events[n + m + 1].type = "preview"
            /\ events[n + m + p + 1].type = "complete"
            /\ events[n + m + p + 1].content = Keys(project_files)

\* A successful chat turn with two token events and two code events.
C6_Witness ==
    /\ wstatus = "ok"
    /\ Len(Fragments) = 2
    /\ Len(wfiles) = 2
    /\ wpreview

\* C7: for the n fragments the LLM stream delivers, stream_generate emits n token
\* events, the i-th carrying the i-th fragment unchanged, in the order of
\* arrival, and hands their concatenation in that order to _parse_web_files.
C7_TokensInOrder ==
    wstatus \in {"running", "ok"} =>
        /\ \A i \in 1..Len(Fragments) :
              /\ Len(events) >= i
              /\ events[i].type = "token"
              /\ events[i].content = Fragments[i]
        /\ \A i \in DOMAIN events : IsToken(events[i]) => i <= Len(Fragments)
        /\ full_response = Flatten(Fragments)
        /\ (wpc = "uploading" /\ wnext = 1) => wfiles = ParseWebFiles(Flatten(Fragments))

\* The stream delivered a fragment that opens a fenced block and then a whole
\* block, and their concatenation was parsed.
C7_Witness ==
    /\ wpc = "uploading" /\ wnext = 1
    /\ Len(Fragments) = 2
    /\ Fragments[1] = Pieces[13].text
    /\ Fragments[1] # Fragments[2]
    /\ events = <<TokenEvent(Fragments[1]), TokenEvent(Fragments[2])>>

\* C8: a web generation turn, batch or streaming, appends one generate_web entry
\* to the history when it completes, and none when it fails at any step, a
\* failure of the deploy or of the preview after the uploads included.
C8_HistoryOnSuccessOnly ==
    /\ wstatus = "ok" => wappended = 1
    /\ wstatus = "failed" => wappended = 0
    /\ (hkind = "chat" /\ hstatus = "ok") => happended = 1
    /\ (hkind = "chat" /\ hstatus = "failed") => happended = 0

(***************************************************************************)
(* Claims about the life of the sandbox (LifeSpec)                          *)
(***************************************************************************)
\* The operation in hand has called start_preview_server (deploy_and_preview).
Deployed == op.deployed /\ op.kind \in {"chat", "update"}

\* C12: start_preview_server called again after a call on a session whose sandbox
\* exists has returned issues no command to the sandbox and leaves
\* server_running true: the kill and the start command come from the first call
\* only.
C12_StartOnce ==
    /\ (Deployed /\ op.after) => (op.cmds = 0 /\ server_running)
    /\ (Deployed /\ ~op.run0 /\ ~op.nosbx /\ lpc \in {"geturl", "idle"}) =>
           (op.cmds = 2 /\ server_running)

\* The second of two operations has called start_preview_server on the sandbox on
\* which the first one started the server.
C12_Witness ==
    /\ Deployed /\ op.after /\ ~op.nosbx
    /\ lpc = "idle" /\ op.status = "ok"
    /\ ops = 2 /\ ~cleaned /\ sandboxes = 1

\* Session.update_file has just returned in the operation in hand.
UpdateReturned == op.kind = "update" /\ lpc = "deploy"

\* C13: after Session.update_file(name, content) has returned, get_file(name)
\* gives that content, and list_files gives the file names in the order in which
\* each was first written.
C13_WriteThenRead ==
    /\ UpdateReturned =>
          /\ HasKey(project_files, op.name)
          /\ Get(project_files, op.name) = op.content
    /\ Keys(project_files) = written_order

\* Every sandbox created so far has had a remote delete issued.
AllDeleted == \A h \in 1..sandboxes : deletes[h] >= 1

\* C14: once destroy_session has returned True, every sandbox ever created for
\* the session has had a remote delete issued, and no later operation on the
\* session object creates a new sandbox for it.
C14_NoLeak ==
    (dstate = "returned" /\ dresult = "true") =>
        /\ AllDeleted
        /\ sandboxes = rsandboxes

\* C15: under any sequence or interleaving of destroy_session, cleanup_inactive,
\* cleanup_all and CodeAgent.cleanup calls, the remote delete is issued at most
\* once for each created sandbox.
C15_DeleteAtMostOnce == \A h \in Handles : deletes[h] <= 1

\* No SandboxManager was made for the agent since destroy_session began.
NoNewManager == managers = dmanagers

\* C16: when the remote delete raises during destroy_session of a registered
\* session, no exception reaches the caller, destroy_session returns True, the
\* session is out of the registry, and the agent holds no sandbox reference.
C16_DeleteErrorSwallowed ==
    /\ dresult # "raised"
    /\ (dstate = "returned" /\ draised) =>
          /\ dresult = "true"
          /\ ~registered
          /\ NoNewManager => agent_sandbox = 0

\* destroy_session has returned after the delete of the session's sandbox raised.
C16_Witness ==
    /\ dstate = "returned" /\ draised
    /\ cleanups = 0
    /\ NoNewManager
    /\ deletes[1] = 1
    /\ agent_sandbox = 0

\* The operation in hand has ended; it called deploy_and_preview or
\* get_preview_url, and the agent had no created sandbox when it did.
ResolvedWithoutSandbox ==
    /\ lpc = "idle"
    /\ op.kind \in {"chat", "update", "preview"}
    /\ op.deployed /\ op.nosbx

\* C17: when the agent has no created sandbox, deploy_and_preview and
\* get_preview_url return None without raising, issue no sandbox command, create
\* no sandbox, and leave server_running and the stored preview url and token as
\* they were.
C17_NoSandboxNoPreview ==
    ResolvedWithoutSandbox =>
        /\ op.status = "ok"
        /\ op.preview = 0
        /\ op.cmds = 0
        /\ sandboxes = op.sb0
        /\ server_running = op.run0
        /\ stored_preview = op.prev0

\* The proxy route has served a request from a url and token.
Proxied == lpc = "idle" /\ op.kind = "proxy" /\ op.status = "ok"

\* C18: the preview url and token stored on the session are a cache of those of
\* the current sandbox: while the sandbox is unchanged, preview resolutions do
\* not call get_preview_link again, and after the sandbox is recreated no
\* request, the proxy route included, uses the url and token stored before.
C18_PreviewCached ==
    /\ \A h \in Handles : links[h] <= 1
    /\ (Proxied /\ op.cur # 0) => op.target = op.cur

\* C19: sandbox creation is lazy: creating a session or constructing an agent
\* creates no remote sandbox; the first sandbox is created only when the first
\* chat, generate or execute request needs it.
C19_LazyCreation == ops = 0 => sandboxes = 0

\* C20: for an agent that has not been cleaned up, any number of
\* _ensure_sandbox, generate_web_code, stream_generate, execute and update_file
\* calls, failed creation attempts included, create at most one sandbox, and
\* every operation acts on that one.
C20_CreatedOnce == ~cleaned => (sandboxes <= 1 /\ used \subseteq {1})

\* After a creation attempt that raised, a later operation created the sandbox
\* and the last one used it again.
C20_Witness ==
    /\ ~cleaned /\ create_failed
    /\ sandboxes = 1 /\ used = {1}
    /\ ops = MaxOps /\ lpc = "idle" /\ op.status = "ok"
    /\ op.sb0 = 1


(***************************************************************************)
(* Further claims about _parse_web_files (ParseSpec)                        *)
(***************************************************************************)
\* The text of a piece with the label of a tagged block in lower case.
LowerTagText(pc) == IF pc.kind = "tag" THEN Block(LowerStr(pc.label), pc.body) ELSE pc.text

RECURSIVE LowerTagsFrom(_)
LowerTagsFrom(i) ==
    IF i > Len(segs) THEN <<>> ELSE LowerTagText(PieceAt(i)) \o LowerTagsFrom(i + 1)

\* C22: language tags are matched without regard to letter case: a fenced block
\* tagged html, css, js or javascript in any letter case is assigned to
\* index.html, styles.css or script.js as the all-lowercase tag would be.
C22_TagsIgnoreCase == ppc = "parsed" => parsed = ParseWebFiles(LowerTagsFrom(1))

\* Every fenced block of the response is labelled with a file name, and one of
\* them with index.html.
OnlyFileBlocks ==
    /\ \A i \in DOMAIN segs : PieceAt(i).kind \in {"file", "text"}
    /\ FileBlocksOf(NameIndexHtml) # {}

\* C24: for a response whose fenced blocks are all labelled with file names
\* (extension html, css, js or json), index.html among them, the mapping returned
\* holds exactly those file names, each with the trimmed body of its block, and
\* no other entry.
C24_ExactMapping ==
    (ppc = "parsed" /\ OnlyFileBlocks) =>
        /\ \A i \in DOMAIN parsed :
              \E j \in FileBlocksOf(parsed[i].name) : parsed[i].content = Strip(PieceAt(j).body)
        /\ \A j \in DOMAIN segs : PieceAt(j).kind = "file" => HasKey(parsed, PieceAt(j).label)
        /\ Len(parsed) = Cardinality({PieceAt(j).label : j \in {k \in DOMAIN segs : PieceAt(k).kind = "file"}})

\* Prose, a block labelled app.js and a block labelled index.html, parsed.
C24_Witness ==
    /\ ppc = "parsed" /\ OnlyFileBlocks
    /\ Len(segs) = 3
    /\ PieceAt(1).kind = "text"
    /\ PieceAt(2).label = NameAppJs
    /\ PieceAt(3).label = NameIndexHtml
    /\ Keys(parsed) = <<NameAppJs, NameIndexHtml>>

\* The fenced blocks of the response, in text order.
BlocksOf == {i \in DOMAIN segs : PieceAt(i).kind \in {"file", "tag", "bare", "other"}}
\* Rules 1 and 2 produce no entry for the response.
NoEntryByRule12 == Rule2Js(response, Rule2Css(response, Rule2Html(response, Rule1(response)))) = EmptyDict
\* index.html as rule 3 derives it from a block body.
FromBlock(body) ==
    IF Contains(Strip(body), <<"<">>) THEN Strip(body)
    ELSE ScriptWrapHead \o Strip(body) \o ScriptWrapTail

\* C26: when rules 1 and 2 produce no entry and the response holds a fenced block,
\* index.html is derived from the first fenced block of the text whatever its
\* label is (none, an unknown language, or one with non-word characters such as
\* main.py): the trimmed body if it holds "<", else the body wrapped in the
\* minimal document as an inline script.
C26_FirstBlockAnyLabel ==
    (ppc = "parsed" /\ WholeBlocks /\ NoEntryByRule12 /\ BlocksOf # {}) =>
        parsed = <<[name |-> NameIndexHtml, content |-> FromBlock(PieceAt(Min(BlocksOf)).body)]>>

Max(S) == CHOOSE x \in S : \A y \in S : y <= x
FileNames == {NameIndexHtml, NameStylesCss, NameStyleCss, NameScriptJs, NameAppJs}
\* The fenced blocks are labelled with language tags only, and those of one kind
\* all carry the same tag: rule 2 is what assigns them.
TagsOnly ==
    /\ \A i \in BlocksOf : PieceAt(i).kind = "tag"
    /\ \A k \in TaggedKinds : Cardinality({PieceAt(i).label : i \in TagBlocksOf(k[2])}) <= 1

\* C27: when the same label (a file name, or a language tag used by rule 2)
\* occurs on several fenced blocks of one response, the mapping holds under the
\* corresponding file name the trimmed body of the last such block in text order.
C27_LastBlockWins ==
    (ppc = "parsed" /\ WholeBlocks) =>
        /\ \A n \in FileNames :
              FileBlocksOf(n) # {} =>
                  /\ HasKey(parsed, n)
                  /\ Get(parsed, n) = Strip(PieceAt(Max(FileBlocksOf(n))).body)
        /\ TagsOnly =>
              \A k \in TaggedKinds :
                  TagBlocksOf(k[2]) # {} =>
                      /\ HasKey(parsed, k[1])
                      /\ Get(parsed, k[1]) = Strip(PieceAt(Max(TagBlocksOf(k[2]))).body)

\* The mapping after rule 1, after rule 2 and after rule 3.
AfterRule1 == Rule1(response)
AfterRule2 == Rule2Js(response, Rule2Css(response, Rule2Html(response, AfterRule1)))
AfterRule3 == Rule3(response, AfterRule2)

\* C28: each rule fills only names still missing: no rule overwrites an entry of
\* an earlier rule; a css-tagged block is not stored as styles.css when
\* styles.css or style.css is present; a js-tagged block is not stored as
\* script.js when script.js or app.js is present; rules 3 to 5 run only when the
\* mapping is still empty.
C28_FillOnlyMissing ==
    ppc = "parsed" =>
        /\ \A i \in DOMAIN AfterRule1 :
              /\ HasKey(parsed, AfterRule1[i].name)
              /\ Get(parsed, AfterRule1[i].name) = AfterRule1[i].content
        /\ (HasKey(AfterRule1, NameStyleCss) /\ ~HasKey(AfterRule1, NameStylesCss))
              => ~HasKey(parsed, NameStylesCss)
        /\ (HasKey(AfterRule1, NameAppJs) /\ ~HasKey(AfterRule1, NameScriptJs))
              => ~HasKey(parsed, NameScriptJs)
        /\ AfterRule2 # EmptyDict => parsed = AfterRule2
        /\ AfterRule3 # EmptyDict => parsed = AfterRule3

\* A block labelled style.css next to a css-tagged block and an html-tagged
\* block: rule 2 adds index.html only.
C28_Witness ==
    /\ ppc = "parsed"
    /\ WholeBlocks
    /\ FileBlocksOf(NameStyleCss) # {}
    /\ TagBlocksOf({CssTags[1]}) # {}
    /\ TagBlocksOf({HtmlTags[1]}) # {}
    /\ Keys(parsed) = <<NameStyleCss, NameIndexHtml>>

\* The response holds no fenced block: prose, and at most one fence, which
\* nothing closes.
NoFencedBlock ==
    /\ \A i \in DOMAIN segs : PieceAt(i).kind \in {"text", "broken"}
    /\ Cardinality({i \in DOMAIN segs : PieceAt(i).kind = "broken"}) <= 1
\* Where a literal doctype or html opening tag starts in the response.
HtmlStarts == {p \in 1..Len(response) : StartsWithAt(response, p, Doctype)
                                        \/ StartsWithAt(response, p, HtmlOpen)}
\* The first characters of the response, PlaceholderLimit of them at most.
Embedded ==
    SubSeq(response, 1, IF Len(response) > PlaceholderLimit THEN PlaceholderLimit
                        ELSE Len(response))

\* C29: for a response with no fenced block the mapping has exactly one entry,
\* index.html: the trimmed suffix of the response from a literal doctype or html
\* opening tag on if it holds one, else the placeholder document around the
\* first 2000 characters of the response and nothing beyond them.
C29_NoFenceFallback ==
    (ppc = "parsed" /\ NoFencedBlock) =>
        /\ Len(parsed) = 1
        /\ parsed[1].name = NameIndexHtml
        /\ IF HtmlStarts # {}
           THEN \E p \in HtmlStarts : parsed[1].content = Strip(Drop(response, p))
           ELSE parsed[1].content = PlaceholderHead \o Embedded \o PlaceholderTail

\* A response longer than 2000 characters, parsed: the placeholder holds 2000.
C29_Witness ==
    /\ ppc = "parsed" /\ NoFencedBlock
    /\ HtmlStarts = {}
    /\ Len(response) > PlaceholderLimit
    /\ Len(parsed[1].content) = PlaceholderLimit + 2
    /\ parsed[1].content[PlaceholderLimit + 1] = "a"


(***************************************************************************)
(* Further claims about the life of the sandbox (LifeSpec)                  *)
(***************************************************************************)
\* The session's sandbox has been destroyed: destroy_session has returned, or a
\* call of CodeAgent.cleanup has ended, and the agent holds no sandbox.
SandboxDestroyed ==
    /\ dstate = "returned" \/ \E c \in Cleaners : cpc[c] = "done"
    /\ ~HasSandbox

\* C21: the file store of a session does not outlive its sandbox: after the
\* sandbox has been destroyed (destroy_session, CodeAgent.cleanup) the file store
\* holds no files: list_files is empty and get_file finds no name.
C21_StoreEndsWithSandbox == SandboxDestroyed => project_files = EmptyDict


(***************************************************************************)
(* Further claims about one session (Spec)                                  *)
(***************************************************************************)
\* The streaming turn whose LLM call failed: it has ended, with one call of the
\* LLM, no file parsed or uploaded, nothing appended, and its token events
\* followed by one error event.
C23_Stream ==
    wraised = "llm error" =>
        /\ wstatus = "failed" /\ wpc = "idle"
        /\ llm_calls = 1
        /\ wfiles = EmptyDict /\ wnext = 0
        /\ wappended = 0
        /\ Len(events) = Len(Fragments) + 1
        /\ \A i \in 1..Len(Fragments) : events[i].type = "token"
        /\ events[Len(events)] = ErrorEvent("llm error")
\* The batch turn whose LLM call failed: the exception left it, after one call
\* of the LLM, with nothing appended.
C23_Batch ==
    hraised = "llm error" =>
        /\ hkind = "chat" /\ hstatus = "failed" /\ hpc = "idle"
        /\ llm_calls = 1
        /\ happended = 0
\* A step of a turn up to the failure of its LLM call leaves the file store, the
\* sandbox's files and the history as they are.
C23_Step ==
    (wpc = "streaming" \/ (turns' # turns /\ (hraised' = "llm error" \/ wraised' = "llm error")))
        => UNCHANGED <<project_files, remote, history>>

\* C23: when the LLM call of a web generation turn fails, before the first
\* fragment or in mid-stream, the turn makes no further LLM call, uploads no
\* file, leaves the file store and the history unchanged, and ends with exactly
\* one error event (streaming) or a raised exception (batch).
C23_LlmFailureEndsTurn == [](C23_Stream /\ C23_Batch) /\ [][C23_Step]_vars

\* The stream of a second turn failed after a fragment; the first turn had
\* stored a file and appended its entry.
C23_Witness ==
    /\ wraised = "llm error"
    /\ Len(Fragments) >= 1
    /\ project_files # EmptyDict
    /\ Len(history) = 1


(***************************************************************************)
(* Claims about the messages of a web turn (HistSpec)                       *)
(***************************************************************************)
\* The generate_web entries among the last 3 entries of the history the last
\* request was built from, by their place in that history.
Replayed ==
    {i \in DOMAIN llm_request.history :
        /\ i > Len(llm_request.history) - 3
        /\ llm_request.history[i].action = "generate_web"}
\* The k-th of them in history order.
ReplayedAt(k) == CHOOSE i \in Replayed : Cardinality({j \in Replayed : j < i}) = k - 1

C30_Messages ==
    llm_request # NoRequest =>
        LET m == llm_request.messages
            h == llm_request.history
            n == Cardinality(Replayed)
        IN  /\ n <= 3
            /\ Len(m) = 2 * n + 2
            /\ m[1].role = "system"
            /\ \A k \in 1..n :
                  /\ m[2 * k].role = "user"
                  /\ m[2 * k].content = h[ReplayedAt(k)].prompt
                  /\ m[2 * k + 1].role = "assistant"
                  /\ m[2 * k + 1].files = h[ReplayedAt(k)].files
            /\ m[Len(m)].role = "user"
            /\ m[Len(m)].content = llm_request.prompt
\* A step never shortens or rewrites the history.
C30_HistoryKept ==
    /\ Len(history') >= Len(history)
    /\ SubSeq(history', 1, Len(history)) = history

\* C30: the message list sent to the LLM for a web turn is the system prompt,
\* then one user/assistant pair for each generate_web entry among the last 3
\* history entries in history order, then the new prompt; older entries never
\* contribute, so at most 3 prior turns are replayed however long the history
\* is, and a turn never truncates the history.
C30_LastThreeReplayed == []C30_Messages /\ [][C30_HistoryKept]_vars

\* A request built from a history of four entries: the first, a web turn, is
\* left out, and of the last three one is no web turn.
C30_Witness ==
    /\ Len(llm_request.history) = 4
    /\ llm_request.history[1].action = "generate_web"
    /\ llm_request.history[3].action = "generate"
    /\ Cardinality(Replayed) = 2
    /\ Len(llm_request.messages) = 6
    /\ Len(history) = 4


(***************************************************************************)
(* Claims about two sessions (PairSpec)                                     *)
(***************************************************************************)
\* C25: sessions are independent: under any interleaving, a step of an operation
\* on one session (a chat turn, a file edit, a deploy, a preview resolution, a
\* destroy) leaves the file store, the history, the sandbox handle, the
\* server_running flag and the stored preview of the other session unchanged.
C25_SessionsIndependent ==
    [][\A b \in Sessions : b # p_acting' => SessionState(b)' = SessionState(b)]_vars

\* Session A was destroyed while a chat turn of session B was between its upload
\* and its history entry; B keeps its files, its sandbox and its running server.
C25_Witness ==
    /\ p_acting = "A"
    /\ "A" \notin p_sessions /\ p_sandbox["A"] = 0
    /\ FilesOf("A") # EmptyDict
    /\ p_pc["B"] = "append"
    /\ FilesOf("B") # EmptyDict /\ FilesOf("B") # FilesOf("A")
    /\ p_sandbox["B"] # 0 /\ p_running["B"] /\ p_preview["B"] = p_sandbox["B"]

(***************************************************************************)
(* Claims about the file store of a session (Spec)                          *)
(***************************************************************************)
\* The names the step in hand added to the file store or gave another content.
Rewritten ==
    {n \in {project_files'[i].name : i \in DOMAIN project_files'} :
        ~HasKey(project_files, n) \/ Get(project_files', n) # Get(project_files, n)}

\* Every name stays in the store, at its place.
C31_NamesKept ==
    /\ Len(project_files') >= Len(project_files)
    /\ SubSeq(Keys(project_files'), 1, Len(project_files)) = Keys(project_files)

\* What the step wrote, by the handler it belongs to: the file at hand of a
\* streaming turn, a file of the response of a batch turn, an edit.
C31_WrittenBy(n) ==
    \/ /\ wpc = "uploading" /\ wnext <= Len(wfiles)
       /\ n = wfiles[wnext].name
       /\ Get(project_files', n) = wfiles[wnext].content
       /\ Cardinality(Rewritten) = 1
    \/ /\ hkind' = "chat" /\ turns' = turns + 1
       /\ \E r \in BatchResponses :
             LET files == ParseWebFiles(Concat(r))
             IN  /\ HasKey(files, n)
                 /\ Get(project_files', n) = Get(files, n)
                 /\ \A m \in Rewritten : HasKey(files, m)
                 /\ happended' = 1 => history'[Len(history')].files = Keys(files)
    \/ /\ turns' = turns + 1 /\ hkind' # "chat"
       /\ n \in EditNames
       /\ Get(project_files', n) \in EditContents
       /\ Cardinality(Rewritten) = 1

C31_Step == C31_NamesKept /\ \A n \in Rewritten : C31_WrittenBy(n)

\* C31: while a session is alive the set of file names in its file store never
\* shrinks; a write to name N (by a generation turn or by update_file) replaces
\* the content of N entirely and leaves the content of every other file as it
\* was; a generation turn whose resolver output does not contain N leaves N as
\* it was.
C31_StoreFrame == [][C31_Step]_vars

\* A generation turn wrote two files, and the edit that followed replaced the
\* generated index.html and left the other file as generated.
C31_Witness ==
    /\ turns = 2 /\ hkind = "update" /\ hstatus = "ok"
    /\ Len(history) = 1 /\ Len(history[1].files) = 2
    /\ Keys(project_files) = history[1].files
    /\ Get(project_files, NameIndexHtml) = <<"e">>
    /\ Get(project_files, NameScriptJs) = Pieces[6].body

(***************************************************************************)
(* Claims about the preview server and the sandbox (LifeSpec)               *)
(***************************************************************************)
\* C33: whenever server_running is true for an agent, the start command of the
\* preview server was issued (after the kill command) in the sandbox the agent
\* holds now; so after the sandbox was destroyed and a new one created for the
\* agent, the next start_preview_server starts a server in the new sandbox.
C33_ServerInCurrentSandbox == (server_running /\ HasSandbox) => CurrentHandle \in served

(***************************************************************************)
(* Claims about handlers side by side (RaceSpec)                            *)
(***************************************************************************)
\* C32: under any interleaving of concurrent deploy_and_preview calls on one
\* session (a file update arriving while a WebSocket turn is in its settle
\* wait), the kill command and the start command are issued at most once in
\* the sandbox: a call that begins while another call is in its settle wait
\* does not kill or restart the preview server.
C32_OneCommandPair == start_commands <= 1

\* The names either dict holds.
StoreNames ==
    {project_files[i].name : i \in DOMAIN project_files} \cup
    {uploaded[i].name : i \in DOMAIN uploaded}

C35_NothingAfterClose ==
    (at_close # NoClose /\ at_close.turn = turns) =>
        /\ events = at_close.events
        /\ remote = at_close.remote
        /\ project_files = at_close.store
        /\ history = at_close.history

(***************************************************************************)
(* Claims about cleanup_inactive (IdleSpec)                                 *)
(***************************************************************************)
\* A session is destroyed by cleanup_inactive in the step in hand.
DestroyedAsInactive(s) == gone[s] = "no" /\ gone'[s] = "cleanup_inactive"

\* C36: cleanup_inactive(max_age) destroys only sessions that are inactive at
\* the moment they are destroyed: a session whose last_activity get_session has
\* refreshed after the list of candidates was computed and before its
\* destroy_session runs is not destroyed, and sessions with last_activity at or
\* after the cutoff are never removed.
C36_OnlyInactiveDestroyed ==
    [][\A s \in Sessions : DestroyedAsInactive(s) => last_activity[s] < cutoff']_vars
====
